---------------------------- MODULE Spec2Model ----------------------------
(***************************************************************************)
(* A model of the collaborative page-editing core of                      *)
(* takker99/scrapbox-headless-script: the O(NP) diff, the folder of       *)
(* add/delete pairs, diff-to-ops, the commit applier and the page room    *)
(* with its commit pipeline, retry loops and live commit consumer.        *)
(***************************************************************************)
EXTENDS Integers, Sequences, FiniteSets, TLC

(***************************************************************************)
(* Bounds of the model.                                                    *)
(***************************************************************************)
\* longest pre-image / target list the pure-function specification draws
MaxLen == 3

\* method calls made on one page room
MaxCalls == 1

\* method calls made on one page room where calls may overlap
MaxOverlap == 2

\* commits other users make on the page in one behaviour
MaxRemote == 1

\* longest change stream the folder is run on
MaxStream == 4

\* longest batch of ops the applier is run on
MaxBatch == 2

\* longest userId createNewLineId is run on, besides one of full length
MaxUserIdLen == 7

\* the events the server emits on the socket of one listenStream
MaxEvents == 3

VARIABLES
  \* the pure-function specification: its inputs and what the code returned
  preImage, target, result,
  \* a change stream handed to toExtendedChanges, a batch of ops handed to
  \* applyCommit
  stream, ops,
  \* the arguments of an id function: a userId, a clock and a random draw
  input,
  \* what the caller uses: a page room, or the one-shot functions
  api,
  \* the server: number of the head commit, the page at every commit so far
  \* (srvPages[n + 1] is the page at commit n), whether the page exists
  srvHead, srvPages, srvPersistent,
  \* the number of commits other users have made
  remoteCommits,
  \* the page room's closure variables (mod.ts 78-84) and its line objects
  heap, lines, parentId, created,
  \* the socket: messages sent to the room and not yet handled, whether it
  \* is connected, whether the commit consumer task is still running
  inbox, connected, consumerAlive,
  \* the method calls, each with its position and locals
  calls

vars == <<preImage, target, result, stream, ops, input, api, srvHead,
          srvPages,
          srvPersistent, remoteCommits, heap, lines,
          parentId, created, inbox, connected, consumerAlive, calls>>

pureVars == <<preImage, target, result, stream, ops, input, api>>

\* the inputs of the pure functions, which running them leaves alone
pureInputs == <<preImage, target, stream, ops, input, api>>

roomVars == <<srvHead, srvPages, srvPersistent, remoteCommits, heap, lines,
              parentId, created,
              inbox, connected, consumerAlive, calls>>

(***************************************************************************)
(* Values.                                                                 *)
(***************************************************************************)
\* the texts lines are drawn from
Texts == {"a", "b", "x"}

\* the user the room acts for (getUserId()), and another user of the page
UserId == 1

RemoteUserId == UserId + 1

\* A line id is a token carrying the second it was minted (t), the tail of
\* the minting user's id (u) and a random part (r).
LineId(t, u, r) == [t |-> t, u |-> u, r |-> r]

\* the reserved anchor "_end"
End == [t |-> 0 - 1, u |-> 0 - 1, r |-> 0 - 1]

\* JavaScript's undefined, where a number is expected
Undefined == 0 - 1

Max(m, n) == IF m > n THEN m ELSE n

Min(m, n) == IF m < n THEN m ELSE n

\* array.slice(from, to) on a 0-based array held as a 1-based sequence
Slice(s, from, to) == SubSeq(s, from + 1, Min(to, Len(s)))

SeqsUpTo(S, n) == UNION {[1..k -> S] : k \in 0..n}

(***************************************************************************)
(* diff.ts: the O(NP) shortest edit script.                                *)
(***************************************************************************)
\* an element of the edit script
Added(v) == [type |-> "added", value |-> v]

Deleted(v) == [type |-> "deleted", value |-> v]

Common(v) == [type |-> "common", value |-> v]

\* a snake that takes one diagonal step at most: "if" for "while"
snakeExtendOnce(a, b, x, y) ==
  IF x < Len(a) /\ y < Len(b) /\ x >= 0 /\ y >= 0 /\ a[x + 1] = b[y + 1]
  THEN [x |-> x + 1, y |-> y + 1]
  ELSE [x |-> x, y |-> y]

\* The while loop of snake: extend along the diagonal while a[x] === b[y].
\* x and y are 0-based; a read outside an array gives undefined, which
\* equals no element.
RECURSIVE snakeExtend(_, _, _, _)
snakeExtend(a, b, x, y) ==
  IF x < Len(a) /\ y < Len(b) /\ x >= 0 /\ y >= 0 /\ a[x + 1] = b[y + 1]
  THEN snakeExtend(a, b, x + 1, y + 1)
  ELSE [x |-> x, y |-> y]

\* a snake whose predecessor on a tie (p = pp) is the diagonal below
snakeTieBelow(a, b, offset, s, k, p, pp) ==
  LET y0 == Max(p, pp)
      e == snakeExtend(a, b, y0 - k, y0)
      prev == s.path[k + (IF p >= pp THEN 0 - 1 ELSE 1) + offset]
  IN [fp |-> [s.fp EXCEPT ![k + offset] = e.y],
      path |-> [s.path EXCEPT ![k + offset] = Len(s.pathpos)],
      pathpos |-> Append(s.pathpos, [x |-> e.x, y |-> e.y, prev |-> prev])]

\* snake(k, p, pp) on the state s = [fp, path, pathpos]; the arrays fp and
\* path are functions on 0..MAXSIZE-1, pathpos is the list of
\* [x, y, prev] with prev a 0-based index or -1.  Returns the state with
\* fp[k + offset] assigned by the caller's statement.
snake(a, b, offset, s, k, p, pp) ==
  LET y0 == Max(p, pp)
      e == snakeExtend(a, b, y0 - k, y0)
      prev == s.path[k + (IF p > pp THEN 0 - 1 ELSE 1) + offset]
  IN [fp |-> [s.fp EXCEPT ![k + offset] = e.y],
      path |-> [s.path EXCEPT ![k + offset] = Len(s.pathpos)],
      pathpos |-> Append(s.pathpos, [x |-> e.x, y |-> e.y, prev |-> prev])]

\* fp[k + offset] = snake(k, fp[k - 1 + offset] + 1, fp[k + 1 + offset])
snakeStep(a, b, offset, s, k) ==
  snake(a, b, offset, s, k, s.fp[k - 1 + offset] + 1, s.fp[k + 1 + offset])

\* for (let k = -p; k <= delta - 1; ++k)
RECURSIVE loopUp(_, _, _, _, _, _)
loopUp(a, b, offset, delta, s, k) ==
  IF k <= delta - 1
  THEN loopUp(a, b, offset, delta, snakeStep(a, b, offset, s, k), k + 1)
  ELSE s

\* for (let k = delta + p; k >= delta + 1; --k)
RECURSIVE loopDown(_, _, _, _, _, _)
loopDown(a, b, offset, delta, s, k) ==
  IF k >= delta + 1
  THEN loopDown(a, b, offset, delta, snakeStep(a, b, offset, s, k), k - 1)
  ELSE s

\* do { ++p; ... } while (fp[delta + offset] !== b.length), entered with
\* the value p has after ++p
RECURSIVE loopP(_, _, _, _, _, _)
loopP(a, b, offset, delta, s, p) ==
  LET s1 == loopUp(a, b, offset, delta, s, 0 - p)
      s2 == loopDown(a, b, offset, delta, s1, delta + p)
      s3 == snakeStep(a, b, offset, s2, delta)
  IN IF s3.fp[delta + offset] # Len(b)
     THEN loopP(a, b, offset, delta, s3, p + 1)
     ELSE [s |-> s3, p |-> p]

\* while (r !== -1) { epc.push(pathpos[r][0]); r = pathpos[r][1]; }
RECURSIVE collectEpc(_, _)
collectEpc(pathpos, r) ==
  IF r = 0 - 1 THEN <<>>
  ELSE <<[x |-> pathpos[r + 1].x, y |-> pathpos[r + 1].y]>>
         \o collectEpc(pathpos, pathpos[r + 1].prev)

\* a reverse that yields the list in its own order
sameOrder(list) == list

\* function* reverse(list)
reverse(list) == [i \in 1..Len(list) |-> list[Len(list) + 1 - i]]

\* the inner while loop of buildSES for one end point (x, y)
RECURSIVE sesWalk(_, _, _, _, _, _, _)
sesWalk(a, b, rev, x, y, xIndex, yIndex) ==
  IF xIndex < x \/ yIndex < y
  THEN IF y - x > yIndex - xIndex
       THEN LET r == sesWalk(a, b, rev, x, y, xIndex, yIndex + 1)
            IN [r EXCEPT !.out = <<IF rev THEN Deleted(b[yIndex + 1])
                                         ELSE Added(b[yIndex + 1])>> \o @]
       ELSE IF y - x < yIndex - xIndex
       THEN LET r == sesWalk(a, b, rev, x, y, xIndex + 1, yIndex)
            IN [r EXCEPT !.out = <<IF rev THEN Added(a[xIndex + 1])
                                         ELSE Deleted(a[xIndex + 1])>> \o @]
       ELSE LET r == sesWalk(a, b, rev, x, y, xIndex + 1, yIndex + 1)
            IN [r EXCEPT !.out = <<Common(a[xIndex + 1])>> \o @]
  ELSE [out |-> <<>>, xIndex |-> xIndex, yIndex |-> yIndex]

\* buildSES: for (const {x, y} of reverse(epc)) ...
RECURSIVE sesLoop(_, _, _, _, _, _, _)
sesLoop(a, b, rev, pts, i, xIndex, yIndex) ==
  IF i > Len(pts) THEN <<>>
  ELSE LET w == sesWalk(a, b, rev, pts[i].x, pts[i].y, xIndex, yIndex)
       IN w.out \o sesLoop(a, b, rev, pts, i + 1, w.xIndex, w.yIndex)

\* diff(left, right): the edit distance and the script buildSES() yields
diff(left, right) ==
  LET reversed == Len(left) > Len(right)
      a == IF reversed THEN right ELSE left
      b == IF reversed THEN left ELSE right
      offset == Len(a) + 1
      MAXSIZE == Len(a) + Len(b) + 3
      delta == Len(b) - Len(a)
      s0 == [fp |-> [i \in 0..(MAXSIZE - 1) |-> 0 - 1],
             path |-> [i \in 0..(MAXSIZE - 1) |-> 0 - 1],
             pathpos |-> <<>>]
      fin == loopP(a, b, offset, delta, s0, 0)
      epc == collectEpc(fin.s.pathpos, fin.s.path[delta + offset])
  IN [from |-> left, to |-> right,
      editDistance |-> delta + fin.p * 2,
      buildSES |-> sesLoop(a, b, reversed, reverse(epc), 1, 0, 0)]


(***************************************************************************)
(* diff.ts: toExtendedChanges, the folder of adjacent add/delete pairs.    *)
(***************************************************************************)
Replaced(v, old) == [type |-> "replaced", value |-> v, oldValue |-> old]

\* a pairing that takes the value from the buffer it looked at first
makeReplacedLeftFirst(left, right) == Replaced(left.value, right.value)

makeReplaced(left, right) ==
  IF left.type = "added"
  THEN Replaced(left.value, right.value)
  ELSE Replaced(right.value, left.value)

\* a flush that pairs from the bottom of both stacks and yields what is
\* left of the longer one after the pairs
flushPairsFirst(stack0, stack1) ==
  [i \in 1..Min(Len(stack0), Len(stack1)) |-> makeReplaced(stack0[i], stack1[i])]
    \o SubSeq(stack0, Len(stack1) + 1, Len(stack0))
    \o SubSeq(stack1, Len(stack0) + 1, Len(stack1))

\* a flush that yields the pairs and drops what was left unpaired
flushPairsOnly(stack0, stack1) ==
  [i \in 1..Min(Len(stack0), Len(stack1)) |->
     makeReplaced(stack0[i + Max(Len(stack0) - Len(stack1), 0)], stack1[i])]

\* function* flush(): what it yields for the two stacks
flush(stack0, stack1) ==
  IF Len(stack0) > Len(stack1)
  THEN LET delta == Len(stack0) - Len(stack1)
       IN [i \in 1..delta |-> stack0[i]]
            \o [i \in 1..Len(stack1) |-> makeReplaced(stack0[i + delta], stack1[i])]
  ELSE [i \in 1..Len(stack0) |-> makeReplaced(stack0[i], stack1[i])]
         \o [i \in 1..(Len(stack1) - Len(stack0)) |-> stack1[i + Len(stack0)]]

\* the for loop of toExtendedChanges from element i on, with its two stacks
RECURSIVE foldFrom(_, _, _, _)
foldFrom(changes, i, stack0, stack1) ==
  IF i > Len(changes) THEN flush(stack0, stack1)
  ELSE LET change == changes[i]
       IN IF change.type = "common"
          THEN flush(stack0, stack1) \o <<change>>
                 \o foldFrom(changes, i + 1, <<>>, <<>>)
          ELSE IF Len(stack0) = 0
          THEN foldFrom(changes, i + 1, <<change>>, stack1)
          ELSE IF stack0[Len(stack0)].type = change.type
          THEN IF Len(stack1) > 0
               THEN flush(stack0, stack1)
                      \o foldFrom(changes, i + 1, <<change>>, <<>>)
               ELSE foldFrom(changes, i + 1, Append(stack0, change), stack1)
          ELSE foldFrom(changes, i + 1, stack0, Append(stack1, change))

toExtendedChanges(changes) == foldFrom(changes, 1, <<>>, <<>>)


(***************************************************************************)
(* id.ts: line ids.                                                        *)
(***************************************************************************)
\* getUnixTimeFromId(id): the seconds the first 8 hex digits of id encode
getUnixTimeFromId(id) == id.t

\* createNewLineId(userId), minted at second now with random part rand
createNewLineId(userId, now, rand) == LineId(now, userId, rand)

(***************************************************************************)
(* id.ts, character by character: a string of hex digits is the sequence   *)
(* of the digits' values (0..15).                                          *)
(***************************************************************************)
\* Number.prototype.toString(16)
RECURSIVE toString16(_)
toString16(n) ==
  IF n < 16 THEN <<n>> ELSE Append(toString16(n \div 16), n % 16)

\* parseInt(str, 16) of a string of hex digits
RECURSIVE parseInt16(_)
parseInt16(str) ==
  IF Len(str) = 0 THEN 0
  ELSE 16 * parseInt16(SubSeq(str, 1, Len(str) - 1)) + str[Len(str)]

\* str.slice(0, k): the first k characters
sliceFirst(str, k) == SubSeq(str, 1, Min(k, Len(str)))

\* a slice that takes the characters from the start of the string
sliceFromStart(str, k) == SubSeq(str, 1, Min(k, Len(str)))

\* str.slice(-k): the last k characters, all of str when it is shorter
sliceLast(str, k) == SubSeq(str, Max(Len(str) - k, 0) + 1, Len(str))

\* zero(n) = n.padStart(8, "0")
zero(n) == [i \in 1..Max(8 - Len(n), 0) |-> 0] \o n

\* the largest value of Math.floor(0xFFFFFE * Math.random())
MaxRandom == 16777213

\* createNewLineId(userId) at second now when Math.floor(0xFFFFFE *
\* Math.random()) is rand: the template string, part by part
createNewLineIdChars(userId, now, rand) ==
  sliceLast(zero(toString16(now)), 8) \o sliceLast(userId, 6)
    \o <<0, 0, 0, 0>> \o zero(toString16(rand))

\* timeOf(id): the first 8 hex characters of id read as unix seconds
getUnixTimeFromIdChars(id) == parseInt16(sliceFirst(id, 8))

(***************************************************************************)
(* Change-ops of a commit batch.                                           *)
(***************************************************************************)
InsertOp(anchor, id, text) ==
  [op |-> "_insert", anchor |-> anchor, id |-> id, text |-> text]

UpdateOp(anchor, text) == [op |-> "_update", anchor |-> anchor, text |-> text]

DeleteOp(anchor) == [op |-> "_delete", anchor |-> anchor]

TitleOp(text) == [op |-> "title", text |-> text]

DescriptionsOp(texts) == [op |-> "descriptions", texts |-> texts]

DeletedOp == [op |-> "deleted"]

IsLineOp(c) == c.op \in {"_insert", "_update", "_delete"}

(***************************************************************************)
(* Line objects live in a heap: an array of lines is a sequence of         *)
(* references (indices into the heap), so that two arrays holding the same *)
(* object see each other's writes, as JavaScript arrays of objects do.     *)
(***************************************************************************)
Line(id, text, userId, createdAt, updatedAt) ==
  [id |-> id, text |-> text, userId |-> userId,
   created |-> createdAt, updated |-> updatedAt]

\* the objects of an array, in order
Deref(h, arr) == [i \in 1..Len(arr) |-> h[arr[i]]]

TextsOf(h, arr) == [i \in 1..Len(arr) |-> h[arr[i]].text]

IdsOf(h, arr) == [i \in 1..Len(arr) |-> h[arr[i]].id]

\* an array of fresh objects holding the given lines, appended to the heap
Alloc(h, recs) ==
  [heap |-> h \o recs,
   arr |-> [i \in 1..Len(recs) |-> Len(h) + i]]

(***************************************************************************)
(* patch.ts: diffToChanges.                                                *)
(***************************************************************************)
NoError == [kind |-> "none"]

TypeError == [kind |-> "TypeError"]

BadAnchor == [kind |-> "BadAnchor"]

MissingAnchor(id) == [kind |-> "MissingAnchor", id |-> id]

\* a cursor that stays on the last line once it has run past it
lineIdAtLast(left, lineNo) == left[Min(lineNo + 1, Len(left))].id

\* lineId = left[lineNo]?.id ?? "_end", lineNo 0-based
lineIdAt(left, lineNo) == IF lineNo < Len(left) THEN left[lineNo + 1].id ELSE End

\* a cursor that never leaves the first line
sameLineNo(lineNo, change) == lineNo

\* lineNo++ at the end of the loop body of diffToChanges
nextLineNo(lineNo, change) == lineNo + 1

\* the for loop of diffToChanges from element i of the folded script on;
\* minted counts the ids created so far
RECURSIVE changesFrom(_, _, _, _, _, _, _, _)
changesFrom(left, ext, i, lineNo, userId, now, rand, minted) ==
  IF i > Len(ext) THEN [err |-> NoError, changes |-> <<>>, minted |-> minted]
  ELSE LET change == ext[i]
           lineId == lineIdAt(left, lineNo)
       IN IF change.type # "added" /\ lineId = End
          THEN [err |-> BadAnchor, changes |-> <<>>, minted |-> minted]
          ELSE LET out == CASE change.type = "added" ->
                                 <<InsertOp(lineId,
                                            createNewLineId(userId, now, rand + minted),
                                            change.value)>>
                            [] change.type = "deleted" -> <<DeleteOp(lineId)>>
                            [] change.type = "replaced" ->
                                 <<UpdateOp(lineId, change.value)>>
                            [] OTHER -> <<>>
                   m == IF change.type = "added" THEN minted + 1 ELSE minted
                   rest == changesFrom(left, ext, i + 1, nextLineNo(lineNo, change),
                                       userId, now, rand, m)
               IN [rest EXCEPT !.changes = out \o @]

\* diffToChanges(left, right, {userId}) spread into an array: the ops, or
\* the error the generator throws; left is the list of line objects read
diffToChanges(left, right, userId, now, rand) ==
  IF Len(left) = 0
  THEN [err |-> TypeError, changes |-> <<>>, minted |-> 0]
  ELSE changesFrom(left,
                   toExtendedChanges(
                     diff([i \in 1..Len(left) |-> left[i].text], right).buildSES),
                   1, 0, userId, now, rand, 0)

(***************************************************************************)
(* applyCommit.ts: the commit applier.                                     *)
(***************************************************************************)
\* the `updated` property: an id carrying a time, a number, or left out
UpdatedId(id) == [isString |-> TRUE, id |-> id, n |-> Undefined]

UpdatedOmitted == [isString |-> FALSE, id |-> End, n |-> Undefined]

\* a lookup that falls back on the first line when the id is absent
getPosOrFirst(h, newLines, lineId) ==
  LET hits == {i \in 1..Len(newLines) : h[newLines[i]].id = lineId}
  IN IF hits = {} THEN Min(1, Len(newLines))
     ELSE CHOOSE i \in hits : \A j \in hits : i <= j

\* newLines.findIndex(({id}) => id === lineId), 1-based, 0 when absent
getPos(h, newLines, lineId) ==
  LET hits == {i \in 1..Len(newLines) : h[newLines[i]].id = lineId}
  IN IF hits = {} THEN 0 ELSE CHOOSE i \in hits : \A j \in hits : i <= j

\* a splice that puts x behind the element at pos
SpliceBehind(arr, pos, x) ==
  SubSeq(arr, 1, pos) \o <<x>> \o SubSeq(arr, pos + 1, Len(arr))

\* array.splice(pos, 0, x) and array.splice(pos, 1), pos 1-based
SpliceIn(arr, pos, x) ==
  SubSeq(arr, 1, pos - 1) \o <<x>> \o SubSeq(arr, pos, Len(arr))

SpliceOut(arr, pos) == SubSeq(arr, 1, pos - 1) \o SubSeq(arr, pos + 1, Len(arr))

\* const newLines = [...ls]: the copy holds the same line objects
copyLines(h, ls) == ls

\* one iteration of the for loop of applyCommit on st = [heap, lines, err]
applyChange(st, change, updated, userId) ==
  IF change.op = "_insert"
  THEN LET createdAt == getUnixTimeFromId(change.id)
           newLine == Line(change.id, change.text, userId, createdAt, createdAt)
           ref == Len(st.heap) + 1
           pos == getPos(st.heap, st.lines, change.anchor)
       IN IF change.anchor = End
          THEN [st EXCEPT !.heap = Append(@, newLine), !.lines = Append(@, ref)]
          ELSE IF pos = 0
          THEN [st EXCEPT !.err = MissingAnchor(change.anchor)]
          ELSE [st EXCEPT !.heap = Append(@, newLine),
                          !.lines = SpliceIn(@, pos, ref)]
  ELSE IF change.op = "_update"
  THEN LET pos == getPos(st.heap, st.lines, change.anchor)
       IN IF pos = 0
          THEN [st EXCEPT !.err = MissingAnchor(change.anchor)]
          ELSE [st EXCEPT !.heap[st.lines[pos]].text = change.text,
                          !.heap[st.lines[pos]].updated =
                            IF updated.isString
                            THEN getUnixTimeFromId(updated.id)
                            ELSE updated.n]
  ELSE IF change.op = "_delete"
  THEN LET pos == getPos(st.heap, st.lines, change.anchor)
       IN IF pos = 0
          THEN [st EXCEPT !.err = MissingAnchor(change.anchor)]
          ELSE [st EXCEPT !.lines = SpliceOut(@, pos)]
  ELSE st

RECURSIVE applyFrom(_, _, _, _, _)
applyFrom(st, changes, i, updated, userId) ==
  IF i > Len(changes) \/ st.err # NoError THEN st
  ELSE applyFrom(applyChange(st, changes[i], updated, userId),
                 changes, i + 1, updated, userId)

\* applyCommit(ls, changes, {updated, userId}): the h after the call,
\* and the array returned (ls) or the error thrown (err)
applyCommit(h, ls, changes, updated, userId) ==
  applyFrom([heap |-> h, lines |-> copyLines(h, ls), err |-> NoError],
            changes, 1, updated, userId)


(***************************************************************************)
(* mod.ts: metadata derivation and the commit request.                     *)
(***************************************************************************)
\* Array.prototype.join
RECURSIVE join(_, _)
join(arr, sep) ==
  IF Len(arr) = 0 THEN ""
  ELSE IF Len(arr) = 1 THEN arr[1]
  ELSE arr[1] \o sep \o join(Tail(arr), sep)

\* lines.slice(1, 6).map((line) => line.text)
descriptionsOf(h, arr) == TextsOf(h, Slice(arr, 1, 6))

\* a title check that leaves out "|| !created"
titleChangedTextOnly(h, ls, changedLines, isCreated) ==
  h[ls[1]].text # h[changedLines[1]].text

\* whether push appends the title op (mod.ts 105)
titleChanged(h, ls, changedLines, isCreated) ==
  h[ls[1]].text # h[changedLines[1]].text \/ ~isCreated

\* whether push appends the descriptions op (mod.ts 111)
descriptionsChanged(h, ls, changedLines) ==
  join(descriptionsOf(h, ls), "\n") # join(descriptionsOf(h, changedLines), "\n")

\* The title and descriptions checks of push: the batch with the derived
\* ops appended, or the TypeError of reading .text of a missing first line.
\* h is the heap as applyCommit left it.
deriveMetadata(h, ls, changedLines, isCreated, changes) ==
  IF Len(ls) = 0 \/ Len(changedLines) = 0
  THEN [err |-> TypeError, changes |-> changes]
  ELSE [err |-> NoError,
        changes |->
          changes
          \o (IF titleChanged(h, ls, changedLines, isCreated)
              THEN <<TitleOp(h[changedLines[1]].text)>> ELSE <<>>)
          \o (IF descriptionsChanged(h, ls, changedLines)
              THEN <<DescriptionsOp(descriptionsOf(h, changedLines))>>
              ELSE <<>>)]

PushExhausted == [kind |-> "PushExhausted"]

RoomClosed == [kind |-> "RoomClosed"]

\* the number of resubmissions of pushWithRetry (retry = 3)
DefaultRetry == 3

\* the number of attempts of the patch loop (i < 3)
PatchTries == 3

(***************************************************************************)
(* The server and the other users of the page.                             *)
(***************************************************************************)
\* the id of the n-th commit; it carries the second of the commit
CommitId(n) == LineId(n, 0, n)

\* the wall clock, in seconds: it advances with every commit
Now == srvHead

\* the page the server holds at its head commit
HeadPage == srvPages[srvHead + 1]

\* The server applies a batch as the applier does (spec 5, Ordering), to
\* its own copy of the page; err when an anchor is absent.
ServerApply(page, changes, commitNo, userId) ==
  LET ap == applyCommit(page, [i \in 1..Len(page) |-> i], changes,
                        UpdatedId(CommitId(commitNo)), userId)
  IN [err |-> ap.err, page |-> Deref(ap.heap, ap.lines)]

\* the (id, text) pairs of a list of lines
IdText(recs) == [i \in 1..Len(recs) |-> <<recs[i].id, recs[i].text>>]

\* the batches another user may commit on the head page
RemoteBatches(page) ==
  {<<InsertOp(End, createNewLineId(RemoteUserId, Now, srvHead + 1), "r")>>}
  \cup (IF Len(page) >= 1 THEN {<<UpdateOp(page[1].id, "r")>>} ELSE {})
  \cup (IF Len(page) >= 2 THEN {<<DeleteOp(page[Len(page)].id)>>} ELSE {})

\* the pages a room may join: an existing page, or the shell of a page
\* that has not been created yet, whose only line is its title
InitialPages ==
  {[persistent |-> TRUE,
    lines |-> <<Line(LineId(0, 0, 1), "a", RemoteUserId, 0, 0),
                Line(LineId(0, 0, 2), "b", RemoteUserId, 0, 0)>>],
   [persistent |-> TRUE,
    lines |-> <<Line(LineId(0, 0, 1), "a", RemoteUserId, 0, 0)>>],
   [persistent |-> FALSE,
    lines |-> <<Line(LineId(0, 0, 1), "title", RemoteUserId, 0, 0)>>]}

(***************************************************************************)
(* The page room: state records and the callers' inputs.                   *)
(***************************************************************************)
\* the method calls of a behaviour
Slots == DOMAIN calls

NoReq == [parentId |-> 0 - 1, changes |-> <<>>]

NoPage == [commitId |-> 0 - 1, persistent |-> FALSE, lines |-> <<>>]

\* a method call that has not been made yet
IdleCall ==
  [pc |-> "idle", kind |-> "none", f |-> "none", async |-> FALSE,
   changes |-> <<>>, changedLines |-> <<>>, newLines |-> <<>>,
   req |-> NoReq, reqState |-> "none", fetched |-> NoPage, i |-> 0,
   err |-> NoError,
   \* history of the call, read by the properties only
   pre |-> <<>>, post |-> <<>>, fIn |-> <<>>, diffIn |-> <<>>,
   preCreated |-> FALSE, seen |-> FALSE,
   nReq |-> 0, nRej |-> 0, nFetch |-> 0, accepted |-> <<>>,
   resId |-> 0 - 1, afterCleanup |-> FALSE, startParent |-> 0 - 1]

\* the update callbacks a caller may pass to patch
Fs == {"identity", "appendB", "setFirstX", "dropLast", "prependX", "clear"}

\* update(lines): the texts the callback f returns for the lines it is given
ApplyF(f, texts) ==
  CASE f = "appendB" -> Append(texts, "b")
    [] f = "setFirstX" -> IF Len(texts) = 0 THEN texts
                          ELSE [texts EXCEPT ![1] = "x"]
    [] f = "dropLast" -> SubSeq(texts, 1, Len(texts) - 1)
    [] f = "prependX" -> <<"x">> \o texts
    [] f = "clear" -> <<>>
    [] OTHER -> texts

\* the scan of split: a line ends at "\n" and at "\r\n"
RECURSIVE splitFrom(_, _, _, _)
splitFrom(chars, i, cur, acc) ==
  IF i > Len(chars) THEN Append(acc, cur)
  ELSE IF chars[i] = "\n" THEN splitFrom(chars, i + 1, "", Append(acc, cur))
  ELSE IF chars[i] = "\r" /\ i < Len(chars) /\ chars[i + 1] = "\n"
  THEN splitFrom(chars, i + 2, "", Append(acc, cur))
  ELSE splitFrom(chars, i + 1, cur \o chars[i], acc)

\* text.split(/\n|\r\n/) (mod.ts 132), text given as its characters
split(chars) == splitFrom(chars, 1, "", <<>>)

\* the texts a caller may pass to insert, as characters
RawTexts ==
  {<<>>, <<"x">>, <<"x", "\n", "y">>, <<"x", "\r", "\n", "y">>}

InsertTexts == {split(text) : text \in RawTexts}

\* the texts a caller may pass to update
UpdateTexts == {"x"}

\* an id no line has
AbsentId == LineId(0, 0, 0)

\* The random parts of the ids minted by attempt i of the call in slot s:
\* Math.random() taken never to repeat, so that minted ids are fresh.
RandBase(s, i) == 100 * s + 10 * i

\* the variables of the room as one record, so that the synchronous
\* segments of a method compose
Room ==
  [heap |-> heap, lines |-> lines, parentId |-> parentId, created |-> created,
   calls |-> calls]


\* the references of an array, each kept once, in order of first use
RECURSIVE uniq(_, _, _)
uniq(arr, i, acc) ==
  IF i > Len(arr) THEN acc
  ELSE uniq(arr, i + 1,
            IF \E j \in 1..Len(acc) : acc[j] = arr[i] THEN acc
            ELSE Append(acc, arr[i]))

RECURSIVE liveRefs(_, _)
liveRefs(cs, s) ==
  IF s > Len(cs) THEN <<>> ELSE cs[s].changedLines \o liveRefs(cs, s + 1)

\* Garbage collection: the heap keeps the objects some array still holds,
\* numbered in order of first use; which object is which is unchanged.
renumber(arr, order) ==
  [k \in 1..Len(arr) |-> CHOOSE j \in 1..Len(order) : order[j] = arr[k]]

collectIn(R, order) ==
  [R EXCEPT !.heap = [j \in 1..Len(order) |-> R.heap[order[j]]],
            !.lines = renumber(R.lines, order),
            !.calls = [s \in DOMAIN R.calls |->
                         [R.calls[s] EXCEPT
                            !.changedLines = renumber(@, order)]]]

Collect(R) == collectIn(R, uniq(R.lines \o liveRefs(R.calls, 1), 1, <<>>))

Assign(C) ==
  /\ heap' = C.heap
  /\ lines' = C.lines
  /\ parentId' = C.parentId
  /\ created' = C.created
  /\ calls' = C.calls

SetRoom(R) == Assign(Collect(R))

(***************************************************************************)
(* mod.ts: the synchronous segments of push, pushWithRetry and patch, as   *)
(* functions of the room record R for the call in slot s.                  *)
(***************************************************************************)
\* request("socket.io-request", {method: "commit", ...}) of pushCommit
sendCommit(R, s, pcName, parent, changes) ==
  [R EXCEPT !.calls[s].pc = pcName,
            !.calls[s].req = [parentId |-> parent, changes |-> changes],
            !.calls[s].reqState = "sent",
            !.calls[s].seen = FALSE,
            !.calls[s].nReq = @ + 1]

\* getPage of ensureEditablePage
sendFetch(R, s, pcName) ==
  [R EXCEPT !.calls[s].pc = pcName,
            !.calls[s].req = NoReq,
            !.calls[s].reqState = "fetching",
            !.calls[s].changedLines = <<>>,
            !.calls[s].nFetch = @ + 1]

\* the method's promise rejects with e
fail(R, s, e) ==
  [R EXCEPT !.calls[s].pc = "failed",
            !.calls[s].err = e,
            !.calls[s].req = NoReq,
            !.calls[s].reqState = "none",
            !.calls[s].changedLines = <<>>]

\* the assignments after a push that succeeded (mod.ts 116, 126-127 and
\* 176-178); the method's promise resolves
finishPush(R, s, commitId) ==
  [R EXCEPT !.parentId = commitId,
            !.created = TRUE,
            !.lines = R.calls[s].changedLines,
            !.calls[s].pc = "done",
            !.calls[s].resId = commitId,
            !.calls[s].req = NoReq,
            !.calls[s].reqState = "none",
            !.calls[s].changedLines = <<>>]

\* throw Error("Faild to retry pushing.") after the for loop of
\* pushWithRetry (mod.ts 434): reached when the loop ends and on break
afterRetryLoop(R, s) == fail(R, s, PushExhausted)

\* a loop head that lets one more iteration through: "<=" for "<"
retryLoopOneMore(R, s) ==
  IF R.calls[s].i <= DefaultRetry
  THEN sendFetch(R, s, "fetch")
  ELSE afterRetryLoop(R, s)

\* the head of the for loop of pushWithRetry (mod.ts 419-420)
retryLoop(R, s) ==
  IF R.calls[s].i < DefaultRetry
  THEN sendFetch(R, s, "fetch")
  ELSE afterRetryLoop(R, s)

\* push after the title and descriptions checks (mod.ts 115-124, 411-415)
pushDerived(R, s, ap, md) ==
  IF md.err # NoError THEN fail(R, s, md.err)
  ELSE IF Len(md.changes) = 0
  THEN finishPush([R EXCEPT !.calls[s].changedLines = ap.lines], s, R.parentId)
  ELSE sendCommit([R EXCEPT !.calls[s].changedLines = ap.lines,
                            !.calls[s].changes = md.changes],
                  s, "commit0", R.parentId, md.changes)

\* push after applyCommit returned or threw (mod.ts 103-113); ls is the
\* mirror's array as it was when push was called
pushApplied(R, s, ls, changes, ap) ==
  IF ap.err # NoError THEN fail([R EXCEPT !.heap = ap.heap], s, ap.err)
  ELSE pushDerived([R EXCEPT !.heap = ap.heap,
                             !.calls[s].post = Deref(ap.heap, ap.lines)],
                   s, ap,
                   deriveMetadata(ap.heap, ls, ap.lines, R.created, changes))

\* push(changes) up to its first await (mod.ts 98-124, 411-415)
push(R, s, changes) ==
  pushApplied([R EXCEPT !.calls[s].pre = Deref(R.heap, R.lines),
                        !.calls[s].preCreated = R.created,
                        !.calls[s].changes = changes],
              s, R.lines, changes,
              applyCommit(R.heap, R.lines, changes, UpdatedOmitted, UserId))

\* pushWithRetry after its first pushCommit settled (mod.ts 416-419)
onCommit0(R, s, ok, commitId) ==
  IF ok THEN finishPush(R, s, commitId)
  ELSE retryLoop([R EXCEPT !.calls[s].i = 0, !.calls[s].changedLines = <<>>], s)

\* pushWithRetry after ensureEditablePage returned (mod.ts 420-426)
onFetch(R, s, page) ==
  IF Len(R.calls[s].changes) = 0 THEN afterRetryLoop(R, s)
  ELSE sendCommit(R, s, "commitR", page.commitId, R.calls[s].changes)

\* pushWithRetry after a resubmission settled (mod.ts 427-434)
onCommitR(R, s, ok, commitId) ==
  IF ok THEN afterRetryLoop(R, s)
  ELSE retryLoop([R EXCEPT !.calls[s].i = @ + 1], s)

\* the catch block of the patch loop (mod.ts 185-193)
patchCatch(R, s) ==
  IF R.calls[s].i = PatchTries - 1
  THEN fail(R, s, PushExhausted)
  ELSE sendFetch(R, s, "pfetch")

\* a tryPush whose pushCommit sends the request whatever the batch holds
tryPushDerivedSent(R, s, ap, md) ==
  IF md.err # NoError THEN patchCatch(R, s)
  ELSE sendCommit([R EXCEPT !.calls[s].changedLines = ap.lines,
                            !.calls[s].changes = md.changes],
                  s, "pcommit", R.parentId, md.changes)

\* tryPush after the title and descriptions checks (mod.ts 167-173)
tryPushDerived(R, s, ap, md) ==
  IF md.err # NoError THEN patchCatch(R, s)
  ELSE IF Len(md.changes) = 0
  THEN finishPush([R EXCEPT !.calls[s].changedLines = ap.lines], s, R.parentId)
  ELSE sendCommit([R EXCEPT !.calls[s].changedLines = ap.lines,
                            !.calls[s].changes = md.changes],
                  s, "pcommit", R.parentId, md.changes)

\* tryPush after applyCommit returned or threw (mod.ts 153-165)
tryPushApplied(R, s, ls, changes, ap) ==
  IF ap.err # NoError THEN patchCatch([R EXCEPT !.heap = ap.heap], s)
  ELSE tryPushDerived([R EXCEPT !.heap = ap.heap,
                                !.calls[s].post = Deref(ap.heap, ap.lines)],
                      s, ap,
                      deriveMetadata(ap.heap, ls, ap.lines, R.created, changes))

\* tryPush after diffToChanges returned or threw (mod.ts 149-152)
tryPushDiffed(R, s, d) ==
  IF d.err # NoError THEN patchCatch(R, s)
  ELSE tryPushApplied([R EXCEPT !.calls[s].changes = d.changes],
                      s, R.lines, d.changes,
                      applyCommit(R.heap, R.lines, d.changes,
                                  UpdatedOmitted, UserId))

\* tryPush after update() returned newLines (mod.ts 145-173)
tryPushBuild(R, s) ==
  tryPushDiffed([R EXCEPT !.calls[s].pre = Deref(R.heap, R.lines),
                          !.calls[s].preCreated = R.created,
                          !.calls[s].diffIn = TextsOf(R.heap, R.lines)],
                s,
                diffToChanges(Deref(R.heap, R.lines), R.calls[s].newLines,
                              UserId, Now, RandBase(s, R.calls[s].i)))

\* tryPush from its start: update(lines), awaited when it is a promise
\* (mod.ts 142-144)
tryPushCalled(R, s) ==
  IF R.calls[s].async
  THEN [R EXCEPT !.calls[s].pc = "awaitF"]
  ELSE tryPushBuild(R, s)

tryPush(R, s) ==
  tryPushCalled([R EXCEPT !.calls[s].fIn = TextsOf(R.heap, R.lines),
                          !.calls[s].newLines =
                            ApplyF(R.calls[s].f, TextsOf(R.heap, R.lines))], s)

\* tryPush after its pushCommit settled (mod.ts 168-185)
onPCommit(R, s, ok, commitId) ==
  IF ok THEN finishPush(R, s, commitId)
  ELSE patchCatch([R EXCEPT !.calls[s].changedLines = <<>>], s)

\* the patch loop after ensureEditablePage returned (mod.ts 193-196, 181)
onPFetch(R, s, page) ==
  tryPush([R EXCEPT !.heap = Alloc(R.heap, page.lines).heap,
                    !.lines = Alloc(R.heap, page.lines).arr,
                    !.parentId = page.commitId,
                    !.created = page.persistent,
                    !.calls[s].i = @ + 1], s)

\* the continuation of the call in slot s when its commit request settled
onCommitSettled(R, s, ok, commitId) ==
  CASE R.calls[s].pc = "commit0" -> onCommit0(R, s, ok, commitId)
    [] R.calls[s].pc = "commitR" -> onCommitR(R, s, ok, commitId)
    [] OTHER -> onPCommit(R, s, ok, commitId)

\* the body of the commit consumer for one notification (mod.ts 92-95):
\* parentId is assigned first; lines only when applyCommit returns
notified(R, msg, ap) ==
  [R EXCEPT !.parentId = msg.id,
            !.heap = ap.heap,
            !.lines = IF ap.err = NoError THEN ap.lines ELSE @]

onNotification(R, msg) ==
  notified(R, msg, applyCommit(R.heap, R.lines, msg.changes,
                               UpdatedId(CommitId(msg.id)), UserId))

\* history: the calls whose commit request is unanswered saw the consumer
\* apply a notification
noteSeen(R) ==
  [R EXCEPT !.calls =
     [s \in DOMAIN R.calls |->
        IF R.calls[s].reqState \in {"sent", "handled"}
        THEN [R.calls[s] EXCEPT !.seen = TRUE]
        ELSE R.calls[s]]]

\* whether the consumer's applyCommit throws, which ends the consumer task
consumerThrows(R, msg) ==
  applyCommit(R.heap, R.lines, msg.changes,
              UpdatedId(CommitId(msg.id)), UserId).err # NoError


(***************************************************************************)
(* The page room: its actions.                                             *)
(***************************************************************************)
\* the state after joinPageRoom returned (mod.ts 67-96) on an initial page
InitRoom(pages, nCalls) ==
  \E page \in pages :
    /\ srvHead = 0
    /\ srvPages = <<page.lines>>
    /\ srvPersistent = page.persistent
    /\ remoteCommits = 0
    /\ heap = page.lines
    /\ lines = [i \in 1..Len(page.lines) |-> i]
    /\ parentId = 0
    /\ created = page.persistent
    /\ inbox = <<>>
    /\ connected = TRUE
    /\ consumerAlive = TRUE
    /\ calls = [s \in 1..nCalls |-> IdleCall]
    /\ api = "room"

\* slots are taken in order
CanCall(s) ==
  /\ calls[s].pc = "idle"
  /\ \A q \in Slots : q < s => calls[q].pc # "idle"

\* the room record with the call in slot s begun
Begun(s, kind) ==
  [Room EXCEPT !.calls[s].kind = kind,
               !.calls[s].afterCleanup = ~connected,
               !.calls[s].startParent = parentId]

\* the ids a caller may name: those of the mirror's lines, and one of no line
KnownIds == {heap[lines[i]].id : i \in 1..Len(lines)} \cup {AbsentId}

srvUnchanged == UNCHANGED <<srvHead, srvPages, srvPersistent, remoteCommits>>

sockUnchanged == UNCHANGED <<inbox, connected, consumerAlive>>

\* insert(text, beforeId) (mod.ts 131-137)
CallInsert(s, texts) ==
  /\ CanCall(s)
  /\ \E text \in texts, beforeId \in KnownIds \cup {End} :
       LET changes == [k \in 1..Len(text) |->
                         InsertOp(beforeId,
                                  createNewLineId(UserId, Now,
                                                  RandBase(s, 0) + k - 1),
                                  text[k])]
       IN SetRoom(push(Begun(s, "insert"), s, changes))
  /\ srvUnchanged /\ sockUnchanged /\ UNCHANGED pureVars

\* remove(lineId) (mod.ts 138)
CallRemove(s) ==
  /\ CanCall(s)
  /\ \E lineId \in KnownIds :
       SetRoom(push(Begun(s, "remove"), s, <<DeleteOp(lineId)>>))
  /\ srvUnchanged /\ sockUnchanged /\ UNCHANGED pureVars

\* update(text, lineId) (mod.ts 139-140)
CallUpdate(s, texts) ==
  /\ CanCall(s)
  /\ \E text \in texts, lineId \in KnownIds :
       SetRoom(push(Begun(s, "update"), s, <<UpdateOp(lineId, text)>>))
  /\ srvUnchanged /\ sockUnchanged /\ UNCHANGED pureVars

\* patch(update) (mod.ts 141-183), up to its first await
CallPatch(s, fs) ==
  /\ CanCall(s)
  /\ \E f \in fs, async \in BOOLEAN :
       SetRoom(tryPush([Begun(s, "patch") EXCEPT !.calls[s].f = f,
                                                 !.calls[s].async = async,
                                                 !.calls[s].i = 0], s))
  /\ srvUnchanged /\ sockUnchanged /\ UNCHANGED pureVars

\* the promise update() returned resolves (mod.ts 144)
ResumeF(s) ==
  /\ calls[s].pc = "awaitF"
  /\ SetRoom(tryPushBuild(Room, s))
  /\ srvUnchanged /\ sockUnchanged /\ UNCHANGED pureVars

\* The server handles the commit request of slot s: it accepts a batch
\* whose parent is its head and whose anchors exist, and answers
\* {commitId}; it may reject any request.  The other members of the room
\* get the notification, the sender gets the answer.
ServerCommit(s) ==
  /\ connected
  /\ calls[s].reqState = "sent"
  /\ LET req == calls[s].req
         ap == ServerApply(HeadPage, req.changes, srvHead + 1, UserId)
     IN \/ /\ req.parentId = srvHead
           /\ ap.err = NoError
           /\ srvHead' = srvHead + 1
           /\ srvPages' = Append(srvPages, ap.page)
           /\ srvPersistent' = \A i \in 1..Len(req.changes) :
                                  req.changes[i].op # "deleted"
           /\ UNCHANGED remoteCommits
           /\ inbox' = Append(inbox, [type |-> "res", slot |-> s, ok |-> TRUE,
                                      commitId |-> srvHead + 1])
           /\ calls' = [calls EXCEPT ![s].reqState = "handled",
                                     ![s].accepted = Append(@, srvHead + 1)]
        \/ /\ inbox' = Append(inbox, [type |-> "res", slot |-> s, ok |-> FALSE,
                                      commitId |-> 0 - 1])
           /\ calls' = [calls EXCEPT ![s].reqState = "handled",
                                     ![s].nRej = @ + 1]
           /\ srvUnchanged
  /\ UNCHANGED <<heap, lines, parentId, created, connected, consumerAlive>>
  /\ UNCHANGED pureVars

\* The server answers the getPage of slot s with its head.
ServeFetch(s) ==
  /\ calls[s].reqState = "fetching"
  /\ calls' = [calls EXCEPT ![s].reqState = "fetched",
                            ![s].fetched = [commitId |-> srvHead,
                                            persistent |-> srvPersistent,
                                            lines |-> HeadPage]]
  /\ UNCHANGED <<heap, lines, parentId, created>>
  /\ srvUnchanged /\ sockUnchanged /\ UNCHANGED pureVars

\* ensureEditablePage returns to the call in slot s
ResumeFetch(s) ==
  /\ calls[s].reqState = "fetched"
  /\ LET page == calls[s].fetched
         R == [Room EXCEPT !.calls[s].fetched = NoPage,
                           !.calls[s].reqState = "none"]
     IN SetRoom(IF calls[s].pc = "fetch" THEN onFetch(R, s, page)
                ELSE onPFetch(R, s, page))
  /\ srvUnchanged /\ sockUnchanged /\ UNCHANGED pureVars

\* The socket hands its next message to the room: a commit notification
\* to the consumer task, an answer to the request that awaits it.
Deliver ==
  /\ connected
  /\ inbox # <<>>
  /\ inbox' = Tail(inbox)
  /\ LET msg == Head(inbox)
     IN \/ /\ msg.type = "commit"
           /\ consumerAlive
           /\ SetRoom(noteSeen(onNotification(Room, msg)))
           /\ consumerAlive' = ~consumerThrows(Room, msg)
        \/ /\ msg.type = "commit"
           /\ ~consumerAlive
           /\ UNCHANGED <<heap, lines, parentId, created, calls, consumerAlive>>
        \/ /\ msg.type = "res"
           /\ SetRoom(onCommitSettled(Room, msg.slot, msg.ok, msg.commitId))
           /\ UNCHANGED consumerAlive
  /\ UNCHANGED connected
  /\ srvUnchanged /\ UNCHANGED pureVars

\* A request on a disconnected socket is rejected (or is never answered,
\* when this action is not taken).
AbortRequest(s) ==
  /\ ~connected
  /\ calls[s].reqState \in {"sent", "handled"}
  /\ SetRoom(onCommitSettled(Room, s, FALSE, 0 - 1))
  /\ srvUnchanged /\ sockUnchanged /\ UNCHANGED pureVars

\* Another user commits on the head page; the room is notified.
RemoteCommit ==
  /\ remoteCommits < MaxRemote
  /\ remoteCommits' = remoteCommits + 1
  /\ \E batch \in RemoteBatches(HeadPage) :
       LET ap == ServerApply(HeadPage, batch, srvHead + 1, RemoteUserId)
       IN /\ ap.err = NoError
          /\ srvHead' = srvHead + 1
          /\ srvPages' = Append(srvPages, ap.page)
          /\ srvPersistent' = TRUE
          /\ inbox' = IF connected
                      THEN Append(inbox, [type |-> "commit", id |-> srvHead + 1,
                                          changes |-> batch,
                                          userId |-> RemoteUserId])
                      ELSE inbox
  /\ UNCHANGED <<heap, lines, parentId, created, connected, consumerAlive,
                 calls>>
  /\ UNCHANGED pureVars

\* cleanup() (mod.ts 204-206)
Cleanup ==
  /\ connected
  /\ connected' = FALSE
  /\ UNCHANGED <<heap, lines, parentId, created, inbox, consumerAlive, calls>>
  /\ srvUnchanged /\ UNCHANGED pureVars

\* no id function is run
NoInput == [userId |-> <<>>, now |-> 0, rand |-> 0]

\* the pure-function variables while the room runs
PureIdle ==
  /\ preImage = <<>>
  /\ target = <<>>
  /\ result = [step |-> "none"]
  /\ input = NoInput
  /\ stream = <<>>
  /\ ops = <<>>

Init == InitRoom(InitialPages, MaxCalls) /\ PureIdle

Next ==
  \/ \E s \in Slots : CallInsert(s, InsertTexts)
  \/ \E s \in Slots : CallRemove(s)
  \/ \E s \in Slots : CallUpdate(s, UpdateTexts)
  \/ \E s \in Slots : CallPatch(s, Fs)
  \/ \E s \in Slots : ResumeF(s)
  \/ \E s \in Slots : ServerCommit(s)
  \/ \E s \in Slots : ServeFetch(s)
  \/ \E s \in Slots : ResumeFetch(s)
  \/ \E s \in Slots : AbortRequest(s)
  \/ Deliver
  \/ RemoteCommit
  \/ Cleanup

Spec == Init /\ [][Next]_vars


(***************************************************************************)
(* Overlapping calls: a caller that does not await a method before it      *)
(* calls the next, on an existing page no other user edits.                *)
(***************************************************************************)
InitOverlap ==
  /\ InitRoom({p \in InitialPages : p.persistent /\ Len(p.lines) = 2},
              MaxOverlap)
  /\ PureIdle

NextOverlap ==
  \/ \E s \in Slots : CallInsert(s, {<<"x">>})
  \/ \E s \in Slots : CallRemove(s)
  \/ \E s \in Slots : CallUpdate(s, UpdateTexts)
  \/ \E s \in Slots : CallPatch(s, {"appendB", "setFirstX"})
  \/ \E s \in Slots : ResumeF(s)
  \/ \E s \in Slots : ServerCommit(s)
  \/ \E s \in Slots : ServeFetch(s)
  \/ \E s \in Slots : ResumeFetch(s)
  \/ Deliver

SpecOverlap == InitOverlap /\ [][NextOverlap]_vars

(***************************************************************************)
(* The pure functions on their own: diff and diffToChanges run on a        *)
(* pre-image and a target, and the applier runs on the ops produced.       *)
(***************************************************************************)
\* two sequences over four distinct elements, one replaced in the middle
ExampleA == <<"a", "b", "c">>

ExampleB == <<"a", "x", "c">>

\* the sequences of texts the pure functions are run on
InputTexts == SeqsUpTo(Texts, MaxLen) \cup {ExampleA, ExampleB}

\* the pre-images: up to MaxLen lines with distinct ids, any texts
PreImages ==
  {[i \in 1..Len(ts) |-> Line(LineId(0, 0, i), ts[i], RemoteUserId, 0, 0)] :
     ts \in InputTexts}

InitDiff ==
  /\ preImage \in PreImages
  /\ target \in InputTexts
  /\ result = [step |-> "none"]
  /\ input = NoInput
  /\ stream = <<>>
  /\ ops = <<>>
  /\ InitRoom({p \in InitialPages : p.persistent /\ Len(p.lines) = 1}, 0)

\* what applyCommit makes of the pre-image and the ops d holds; nothing
\* when diffToChanges threw
applied(left, d) ==
  IF d.err # NoError THEN [heap |-> left, lines |-> <<>>, err |-> d.err]
  ELSE applyCommit(left, [i \in 1..Len(left) |-> i], d.changes,
                   UpdatedOmitted, UserId)

\* diff(left.map(text), right) and its edit script
RunDiff ==
  /\ result.step = "none"
  /\ result' = [step |-> "diffed",
                d |-> diff([i \in 1..Len(preImage) |-> preImage[i].text],
                           target),
                dRev |-> diff(target,
                              [i \in 1..Len(preImage) |-> preImage[i].text])]
  /\ UNCHANGED pureInputs /\ UNCHANGED roomVars

\* [...diffToChanges(left, right, {userId})], then applyCommit of the ops
\* to the pre-image
RunDiffToChanges ==
  /\ result.step = "none"
  /\ result' = [step |-> "patched",
                d |-> diffToChanges(preImage, target, UserId, 1, 1),
                ap |-> applied(preImage,
                               diffToChanges(preImage, target, UserId, 1, 1))]
  /\ UNCHANGED pureInputs /\ UNCHANGED roomVars

NextDiff == RunDiff \/ RunDiffToChanges

SpecDiff == InitDiff /\ [][NextDiff]_vars

(***************************************************************************)
(* The folder on its own: toExtendedChanges run on any change stream, not  *)
(* only on the edit scripts diff produces.                                 *)
(***************************************************************************)
\* the elements of a change stream
ChangeElems == {Added(v) : v \in Texts} \cup {Deleted(v) : v \in Texts}
                 \cup {Common(v) : v \in Texts}

Streams == SeqsUpTo(ChangeElems, MaxStream)

InitFold ==
  /\ stream \in Streams
  /\ preImage = <<>>
  /\ target = <<>>
  /\ ops = <<>>
  /\ result = [step |-> "none"]
  /\ input = NoInput
  /\ InitRoom({p \in InitialPages : p.persistent /\ Len(p.lines) = 1}, 0)

\* [...toExtendedChanges(changes)]
RunFold ==
  /\ result.step = "none"
  /\ result' = [step |-> "folded", out |-> toExtendedChanges(stream)]
  /\ UNCHANGED pureInputs /\ UNCHANGED roomVars

NextFold == RunFold

SpecFold == InitFold /\ [][NextFold]_vars

(***************************************************************************)
(* The applier on its own: applyCommit run on any batch of ops, not only   *)
(* on the batches diffToChanges produces.                                  *)
(***************************************************************************)
\* the id of the line a batch may insert
NewLineId == createNewLineId(RemoteUserId, 1, 1)

\* the ids a batch may name: those of the longest pre-image (absent from
\* the shorter ones) and the id it may insert
Anchors == {LineId(0, 0, i) : i \in 1..MaxLen} \cup {NewLineId}

BatchOps ==
  {InsertOp(a, NewLineId, "x") : a \in Anchors \cup {End}}
    \cup {UpdateOp(a, "x") : a \in Anchors}
    \cup {DeleteOp(a) : a \in Anchors}
    \cup {TitleOp("x"), DescriptionsOp(<<"x">>), DeletedOp}

Batches == SeqsUpTo(BatchOps, MaxBatch)

InitApply ==
  /\ preImage \in {[i \in 1..n |-> Line(LineId(0, 0, i), "a", UserId, 0, 0)] :
                     n \in 0..MaxLen}
  /\ ops \in Batches
  /\ target = <<>>
  /\ stream = <<>>
  /\ result = [step |-> "none"]
  /\ input = NoInput
  /\ InitRoom({p \in InitialPages : p.persistent /\ Len(p.lines) = 1}, 0)

\* applyCommit(lines, changes, {updated: id, userId}) on objects of its own
applyTo(left, changes) ==
  applyCommit(left, [i \in 1..Len(left) |-> i], changes,
              UpdatedId(CommitId(1)), RemoteUserId)

RunApply ==
  /\ result.step = "none"
  /\ result' = [step |-> "applied", ap |-> applyTo(preImage, ops)]
  /\ UNCHANGED pureInputs /\ UNCHANGED roomVars

NextApply == RunApply

SpecApply == InitApply /\ [][NextApply]_vars

(***************************************************************************)
(* deletePage (mod.ts 215-247): one call, with a socket of its own, which   *)
(* joins no room and so gets no commit notification.                       *)
(***************************************************************************)
\* a socket that is closed only when deletePage returns normally
openUnlessReturned(call) == call.pc # "done"

\* try { ... } finally { io.disconnect() }: whether the socket is still
\* open after a step of the call
openWhilePending(call) == call.pc \notin {"done", "failed"}

\* deletePage after its ensureEditablePage returned (mod.ts 219-240):
\* preCreated holds `persistent`, startParent holds `initialCommitId`
deleteFetched(R, s, page) ==
  IF ~page.persistent
  THEN [R EXCEPT !.calls[s].pc = "done",
                 !.calls[s].preCreated = FALSE,
                 !.calls[s].startParent = page.commitId]
  ELSE sendCommit([R EXCEPT !.calls[s].preCreated = TRUE,
                            !.calls[s].startParent = page.commitId,
                            !.calls[s].changes = <<DeletedOp>>],
                  s, "commit0", page.commitId, <<DeletedOp>>)

\* pushWithRetry returned parentId to deletePage (mod.ts 419, 436, 237)
deleteReturned(R, s, commitId) ==
  [R EXCEPT !.calls[s].pc = "done",
            !.calls[s].resId = commitId,
            !.calls[s].req = NoReq,
            !.calls[s].reqState = "none"]

\* pushWithRetry, called by deletePage, after a pushCommit settled
deleteSettled(R, s, ok, commitId) ==
  IF R.calls[s].pc = "commit0"
  THEN IF ok THEN deleteReturned(R, s, commitId)
       ELSE retryLoop([R EXCEPT !.calls[s].i = 0], s)
  ELSE onCommitR(R, s, ok, commitId)

InitDelete ==
  /\ \E page \in InitialPages :
       /\ srvPages = <<page.lines>>
       /\ srvPersistent = page.persistent
  /\ srvHead = 0
  /\ remoteCommits = 0
  /\ heap = <<>>
  /\ lines = <<>>
  /\ parentId = 0
  /\ created = FALSE
  /\ inbox = <<>>
  /\ connected = FALSE
  /\ consumerAlive = FALSE
  /\ calls = <<IdleCall>>
  /\ api = "oneShot"
  /\ PureIdle

\* deletePage(project, title) up to its first await (mod.ts 219-227)
CallDeletePage(s) ==
  /\ CanCall(s)
  /\ SetRoom([Room EXCEPT !.calls[s].kind = "deletePage",
                          !.calls[s].pc = "page",
                          !.calls[s].reqState = "fetching"])
  /\ srvUnchanged /\ sockUnchanged /\ UNCHANGED pureVars

\* ensureEditablePage returns to deletePage or to its pushWithRetry; the
\* socket is opened when the page is persistent (mod.ts 230-233)
ResumeDeleteFetch(s) ==
  /\ calls[s].kind = "deletePage"
  /\ calls[s].reqState = "fetched"
  /\ LET page == calls[s].fetched
         R == [Room EXCEPT !.calls[s].fetched = NoPage,
                           !.calls[s].reqState = "none"]
     IN IF calls[s].pc = "page"
        THEN /\ SetRoom(deleteFetched(R, s, page))
             /\ connected' = page.persistent
        ELSE /\ SetRoom(onFetch(R, s, page))
             /\ UNCHANGED connected
  /\ UNCHANGED <<inbox, consumerAlive>>
  /\ srvUnchanged /\ UNCHANGED pureVars

\* the answer to the commit request reaches pushWithRetry; when the call
\* ends here, the finally block disconnects the socket (mod.ts 244-246)
SettleDelete ==
  /\ connected
  /\ inbox # <<>>
  /\ calls[Head(inbox).slot].kind = "deletePage"
  /\ inbox' = Tail(inbox)
  /\ LET msg == Head(inbox)
         R == deleteSettled(Room, msg.slot, msg.ok, msg.commitId)
     IN /\ SetRoom(R)
        /\ connected' = openWhilePending(R.calls[msg.slot])
  /\ UNCHANGED consumerAlive
  /\ srvUnchanged /\ UNCHANGED pureVars

\* Another user commits on the head page; the socket of deletePage is in
\* no room and is not notified.
CommitElsewhere ==
  /\ remoteCommits < MaxRemote
  /\ remoteCommits' = remoteCommits + 1
  /\ \E changes \in RemoteBatches(HeadPage) :
       LET ap == ServerApply(HeadPage, changes, srvHead + 1, RemoteUserId)
       IN /\ ap.err = NoError
          /\ srvHead' = srvHead + 1
          /\ srvPages' = Append(srvPages, ap.page)
          /\ srvPersistent' = TRUE
  /\ UNCHANGED <<heap, lines, parentId, created, calls>>
  /\ sockUnchanged /\ UNCHANGED pureVars

NextDelete ==
  \/ \E s \in Slots : CallDeletePage(s)
  \/ \E s \in Slots : ServeFetch(s)
  \/ \E s \in Slots : ResumeDeleteFetch(s)
  \/ \E s \in Slots : ServerCommit(s)
  \/ SettleDelete
  \/ CommitElsewhere

SpecDelete == InitDelete /\ [][NextDelete]_vars

(***************************************************************************)
(* The one-shot patch (mod.ts 256-340): one call, with a socket of its     *)
(* own and no room; R.lines, R.parentId and R.created stand for its locals *)
(* lines, parentId and persistent.                                         *)
(***************************************************************************)
\* patch after its first ensureEditablePage returned (mod.ts 261-312)
patchPageFetched(R, s, page) ==
  IF ~page.persistent
  THEN [R EXCEPT !.calls[s].pc = "done",
                 !.calls[s].preCreated = FALSE,
                 !.calls[s].startParent = page.commitId]
  ELSE tryPush([R EXCEPT !.heap = Alloc(R.heap, page.lines).heap,
                         !.lines = Alloc(R.heap, page.lines).arr,
                         !.parentId = page.commitId,
                         !.created = page.persistent,
                         !.calls[s].startParent = page.commitId,
                         !.calls[s].i = 0], s)

\* tryPush of the one-shot patch after its pushCommit settled, and the
\* loop around it (mod.ts 304-331)
patchPageSettled(R, s, ok, commitId) ==
  IF ok THEN deleteReturned([R EXCEPT !.calls[s].changedLines = <<>>],
                            s, commitId)
  ELSE patchCatch([R EXCEPT !.calls[s].changedLines = <<>>], s)

\* patch(project, title, update) up to its first await (mod.ts 256-268);
\* update() returns its result at once
CallPatchPage(s, fs) ==
  /\ CanCall(s)
  /\ \E f \in fs :
       SetRoom([Room EXCEPT !.calls[s].kind = "patchPage",
                            !.calls[s].f = f,
                            !.calls[s].pc = "page",
                            !.calls[s].reqState = "fetching"])
  /\ srvUnchanged /\ sockUnchanged /\ UNCHANGED pureVars

\* ensureEditablePage returns to the one-shot patch: at first, when the
\* socket is opened for a persistent page, or to its catch block; the
\* finally block disconnects the socket when the call ends here
ResumePatchFetch(s) ==
  /\ calls[s].kind = "patchPage"
  /\ calls[s].reqState = "fetched"
  /\ LET page == calls[s].fetched
         R == [Room EXCEPT !.calls[s].fetched = NoPage,
                           !.calls[s].reqState = "none"]
         after == IF calls[s].pc = "page" THEN patchPageFetched(R, s, page)
                  ELSE onPFetch(R, s, page)
     IN /\ SetRoom(after)
        /\ connected' = openWhilePending(after.calls[s])
  /\ UNCHANGED <<inbox, consumerAlive>>
  /\ srvUnchanged /\ UNCHANGED pureVars

\* the answer to the commit request reaches tryPush of the one-shot patch
SettlePatch ==
  /\ connected
  /\ inbox # <<>>
  /\ calls[Head(inbox).slot].kind = "patchPage"
  /\ inbox' = Tail(inbox)
  /\ LET msg == Head(inbox)
         R == patchPageSettled(Room, msg.slot, msg.ok, msg.commitId)
     IN /\ SetRoom(R)
        /\ connected' = openWhilePending(R.calls[msg.slot])
  /\ UNCHANGED consumerAlive
  /\ srvUnchanged /\ UNCHANGED pureVars

(***************************************************************************)
(* Every way of pushing: the methods of a page room, or one of the         *)
(* one-shot functions.                                                     *)
(***************************************************************************)
InitCalls == Init \/ InitDelete

\* Another user deletes the page: the commit deletePage sends, accepted
\* from someone else.  The next getPage finds the page not persistent.
DeleteElsewhere ==
  /\ remoteCommits < MaxRemote
  /\ srvPersistent
  /\ remoteCommits' = remoteCommits + 1
  /\ srvHead' = srvHead + 1
  /\ srvPages' = Append(srvPages, HeadPage)
  /\ srvPersistent' = FALSE
  /\ UNCHANGED <<heap, lines, parentId, created, calls>>
  /\ sockUnchanged /\ UNCHANGED pureVars

NextOneShot ==
  \/ NextDelete
  \/ DeleteElsewhere
  \/ \E s \in Slots : CallPatchPage(s, Fs)
  \/ \E s \in Slots : ResumePatchFetch(s)
  \/ SettlePatch

NextCalls ==
  \/ api = "room" /\ Next
  \/ api = "oneShot" /\ NextOneShot

SpecCalls == InitCalls /\ [][NextCalls]_vars

(***************************************************************************)
(* createNewLineId on its own, on a userId, a clock and a random draw.     *)
(***************************************************************************)
\* a userId as the service issues them: 24 hex characters
FullUserId == [i \in 1..24 |-> (7 * i) % 16]

\* the userIds: every string of up to MaxUserIdLen characters out of two,
\* and the full one
UserIds == SeqsUpTo({1, 10}, MaxUserIdLen) \cup {FullUserId}

\* seconds of the wall clock: the epoch, a small one, one of today's, the
\* last one a signed 32-bit number holds
Clocks == {0, 255, 1793526000, 2147483647}

Randoms == {0, 255, 1048576, MaxRandom}

InitId ==
  /\ input \in [userId : UserIds, now : Clocks, rand : Randoms]
  /\ preImage = <<>>
  /\ target = <<>>
  /\ stream = <<>>
  /\ ops = <<>>
  /\ result = [step |-> "none"]
  /\ InitRoom({p \in InitialPages : p.persistent /\ Len(p.lines) = 1}, 0)

RunCreateNewLineId ==
  /\ result.step = "none"
  /\ result' = [step |-> "minted",
                id |-> createNewLineIdChars(input.userId, input.now,
                                            input.rand)]
  /\ UNCHANGED pureInputs /\ UNCHANGED roomVars

NextId == RunCreateNewLineId

SpecId == InitId /\ [][NextId]_vars

(***************************************************************************)
(* mod.ts: listenStream, from the moment room:join was answered.  The      *)
(* socket is `connected`; `inbox` holds the events the subscription has    *)
(* taken from the socket and the generator has not yielded yet; `result`   *)
(* is the generator: where it stands, what it yielded, and how many events *)
(* the server has emitted.  response(...eventNames) is the multiplexed     *)
(* subscription of the transport: it takes the events of the named         *)
(* channels and no others.                                                 *)
(***************************************************************************)
EventChannel == "projectUpdatesStream:event"

CommitChannel == "projectUpdatesStream:commit"

\* the channels the server emits on
Channels == {EventChannel, CommitChannel, "commit"}

\* the event names a caller may pass
EventNames ==
  {<<>>, <<EventChannel>>, <<CommitChannel>>, <<"commit">>,
   <<CommitChannel, EventChannel>>, <<"commit", EventChannel>>}

\* a generator that disconnects only when its consumer ends it
disconnectsOnReturn(how) == how = "return"

\* try { yield* ... } finally { io.disconnect() } (mod.ts 361-371): whether
\* the socket is disconnected when the sequence ends in the given way
disconnects(how) == how \in {"return", "throw", "done"}

\* the arguments of response (mod.ts 363-366)
subscribed(events) ==
  IF Len(events) > 0 THEN events ELSE <<EventChannel, CommitChannel>>

InitStream ==
  /\ input \in [events : EventNames]
  /\ result = [step |-> "streaming", yielded |-> <<>>, emitted |-> 0,
               how |-> "none"]
  /\ preImage = <<>>
  /\ target = <<>>
  /\ stream = <<>>
  /\ ops = <<>>
  /\ api = "listenStream"
  /\ srvHead = 0
  /\ srvPages = <<>>
  /\ srvPersistent = TRUE
  /\ remoteCommits = 0
  /\ heap = <<>>
  /\ lines = <<>>
  /\ parentId = 0
  /\ created = FALSE
  /\ inbox = <<>>
  /\ connected = TRUE
  /\ consumerAlive = TRUE
  /\ calls = <<>>

streamFrame ==
  UNCHANGED <<preImage, target, stream, ops, input, api, srvHead, srvPages,
              srvPersistent, remoteCommits, heap, lines, parentId, created,
              consumerAlive, calls>>

\* The server emits an event on a channel; the subscription takes it when
\* the channel is one of those named.
EmitEvent(ch) ==
  /\ connected
  /\ result.emitted < MaxEvents
  /\ result' = [result EXCEPT !.emitted = @ + 1]
  /\ inbox' = IF \E i \in 1..Len(subscribed(input.events)) :
                    subscribed(input.events)[i] = ch
              THEN Append(inbox, [type |-> ch, n |-> result.emitted + 1])
              ELSE inbox
  /\ UNCHANGED connected
  /\ streamFrame

\* yield* hands the next event of the subscription to the consumer
YieldEvent ==
  /\ result.step = "streaming"
  /\ inbox # <<>>
  /\ result' = [result EXCEPT !.yielded = Append(@, Head(inbox))]
  /\ inbox' = Tail(inbox)
  /\ UNCHANGED connected
  /\ streamFrame

\* The sequence ends: the consumer returns from it ("return"), the
\* subscription throws ("throw"), or the subscription ends ("done").
EndStream(how) ==
  /\ result.step = "streaming"
  /\ result' = [result EXCEPT !.step = "ended", !.how = how]
  /\ connected' = (connected /\ ~disconnects(how))
  /\ UNCHANGED inbox
  /\ streamFrame

NextStream ==
  \/ \E ch \in Channels : EmitEvent(ch)
  \/ YieldEvent
  \/ \E how \in {"return", "throw", "done"} : EndStream(how)

SpecStream == InitStream /\ [][NextStream]_vars

(***************************************************************************)
(* Properties.                                                             *)
(***************************************************************************)
\* C1: for a pre-image of at least one line with distinct ids and any
\* target, diffToChanges completes without error and applyCommit of its ops
\* to the pre-image gives lines whose texts are the target.
C1_RoundTrip ==
  (result.step = "patched" /\ Len(preImage) >= 1)
    => /\ result.d.err = NoError
       /\ result.ap.err = NoError
       /\ TextsOf(result.ap.heap, result.ap.lines) = target

\* the mirror as (id, text) pairs
Mirror == IdText(Deref(heap, lines))

\* the step in which the promise of the call in slot s resolves
Resolves(s) == calls[s].pc \notin {"done", "failed"} /\ calls'[s].pc = "done"

\* the step in which the consumer applies a notification
Notified ==
  /\ inbox # <<>> /\ Head(inbox).type = "commit" /\ inbox' = Tail(inbox)
  /\ consumerAlive /\ consumerAlive'

Last(seq) == seq[Len(seq)]

\* whether a batch holds an op of the given kind
HasOp(changes, op) == \E i \in 1..Len(changes) : changes[i].op = op

\* the op of the given kind a batch holds
TheOp(changes, op) ==
  changes[CHOOSE i \in 1..Len(changes) : changes[i].op = op]

\* the texts of lines 2..6
Desc(recs) == [i \in 1..Min(Len(recs) - 1, 5) |-> recs[i + 1].text]

\* the first submission of the call in slot s is in flight
Submitted(s) ==
  /\ calls[s].pc \in {"commit0", "pcommit"}
  /\ calls[s].nFetch = 0
  /\ calls[s].reqState = "sent"

\* C2: when a push resolves, parentId is the commit id the server returned
\* for it, created is true, and the mirror's lines are the post-image the
\* applier computed from the mirror before the push and the submitted ops.
C2_PushSuccess ==
  [][\A s \in Slots :
       Resolves(s) =>
         /\ parentId' = calls'[s].resId
         /\ created'
         /\ IdText(Deref(heap', lines')) = IdText(calls'[s].post)]_vars

\* C3: insert, remove and update fail with PushExhausted only when every
\* submission was rejected; when a resubmission is accepted the call
\* resolves and parentId is the accepted commit id.
C3_ExhaustedOnlyWhenAllRejected ==
  \A s \in Slots :
    (calls[s].kind \in {"insert", "remove", "update"}
       /\ calls[s].pc = "failed" /\ calls[s].err = PushExhausted)
      => /\ calls[s].accepted = <<>>
         /\ calls[s].nRej = DefaultRetry + 1

\* C4: when a patch whose commit was rejected resolves after a refetch and
\* an accepted resubmission, parentId is the new commit id and the mirror
\* holds what f made of the refetched lines: the remote and the local change.
C4_PatchConflict ==
  [][\A s \in Slots :
       (Resolves(s) /\ calls'[s].kind = "patch" /\ calls'[s].nFetch >= 1
          /\ calls'[s].accepted # <<>>
          /\ calls'[s].resId = Last(calls'[s].accepted))
         => /\ parentId' = calls'[s].resId
            /\ calls'[s].diffIn = calls'[s].fIn
            /\ TextsOf(heap', lines') = calls'[s].newLines]_vars

\* C5: invariant I1: the ids of the mirror's lines are pairwise distinct.
C5_UniqueIds ==
  \A i, j \in 1..Len(lines) : i # j => heap[lines[i]].id # heap[lines[j]].id

\* C6: invariant I3: after a push resolved and after a notification was
\* applied, the mirror's (id, text) pairs are the page the server holds at
\* the commit parentId names.
C6_MirrorIsServerAtParent ==
  [][((\E s \in Slots : Resolves(s)) \/ Notified)
       => IdText(Deref(heap', lines')) = IdText(srvPages'[parentId' + 1])]_vars

\* C7: mutating methods are serialized: no two commits of one room are in
\* flight with the same parentId.
C7_Serialized ==
  \A s, q \in Slots :
    (s # q /\ calls[s].reqState = "sent" /\ calls[q].reqState = "sent")
      => calls[s].req.parentId # calls[q].req.parentId

\* C8: a method called after cleanup() submits no commit, does not
\* resolve, and when it fails it fails with RoomClosed.
C8_ClosedAfterCleanup ==
  \A s \in Slots :
    (calls[s].afterCleanup /\ calls[s].pc # "idle")
      => /\ calls[s].nReq = 0
         /\ calls[s].pc # "done"
         /\ calls[s].pc = "failed" => calls[s].err = RoomClosed

\* C9: the submitted batch holds a title op, with the text of the
\* post-image's first line, exactly when that text differs from the text of
\* the first line of the mirror as it was before the push, or created is
\* false.
C9_TitleOp ==
  \A s \in Slots :
    (Submitted(s) /\ Len(calls[s].pre) >= 1 /\ Len(calls[s].post) >= 1)
      => /\ HasOp(calls[s].changes, "title")
              <=> (calls[s].pre[1].text # calls[s].post[1].text
                     \/ ~calls[s].preCreated)
         /\ HasOp(calls[s].changes, "title")
              => TheOp(calls[s].changes, "title").text = calls[s].post[1].text

\* C10: the submitted batch holds a descriptions op, with the texts of the
\* post-image's lines 2..6, exactly when those texts differ from the texts
\* of lines 2..6 of the mirror as it was before the push.
C10_DescriptionsOp ==
  \A s \in Slots :
    (Submitted(s) /\ Len(calls[s].pre) >= 1 /\ Len(calls[s].post) >= 1)
      => /\ HasOp(calls[s].changes, "descriptions")
              <=> Desc(calls[s].pre) # Desc(calls[s].post)
         /\ HasOp(calls[s].changes, "descriptions")
              => TheOp(calls[s].changes, "descriptions").texts
                   = Desc(calls[s].post)

\* the positions of the line ops and of the title ops of a batch
LineOpsAt(changes) == {i \in 1..Len(changes) : IsLineOp(changes[i])}

TitleOpsAt(changes) == {i \in 1..Len(changes) : changes[i].op = "title"}

\* the call in slot s is insert(text, "_end") of one line on the shell of a
\* page not yet created, whose only line reads "title", and its first
\* request is in flight; created is read as push read it, when it built
\* the batch
FirstInsert(s) ==
  /\ Submitted(s)
  /\ calls[s].kind = "insert"
  /\ ~calls[s].preCreated
  /\ TextsOf(calls[s].pre, [i \in 1..Len(calls[s].pre) |-> i]) = <<"title">>
  /\ Cardinality(LineOpsAt(calls[s].req.changes)) = 1
  /\ calls[s].req.changes[1].anchor = End
  /\ calls[s].req.changes[1].text # ""

\* C11 as stated: on a page not yet created whose only line reads "title",
\* insert of one non-empty line at "_end" submits exactly the _insert op
\* followed by {title: "title"}; every batch submitted while created is
\* false holds a title op after all its line ops.
C11_TitleOnly ==
  \A s \in Slots :
    /\ FirstInsert(s)
         => calls[s].req.changes
              = <<calls[s].req.changes[1], TitleOp("title")>>
    /\ (calls[s].reqState = "sent" /\ ~calls[s].preCreated)
         => /\ TitleOpsAt(calls[s].req.changes) # {}
            /\ \A i \in LineOpsAt(calls[s].req.changes),
                  j \in TitleOpsAt(calls[s].req.changes) : i < j

\* C11 amended: that insert submits the _insert op, then {title: "title"},
\* then {descriptions: [text]}, as the inserted line is the page's second
\* line; every batch submitted while created is false holds a title op
\* after all its line ops.
C11_TitleSynthesis ==
  \A s \in Slots :
    /\ FirstInsert(s)
         => calls[s].req.changes
              = <<calls[s].req.changes[1], TitleOp("title"),
                  DescriptionsOp(<<calls[s].req.changes[1].text>>)>>
    /\ (calls[s].reqState = "sent" /\ ~calls[s].preCreated)
         => /\ TitleOpsAt(calls[s].req.changes) # {}
            /\ \A i \in LineOpsAt(calls[s].req.changes),
                  j \in TitleOpsAt(calls[s].req.changes) : i < j

C11_Witness ==
  \E s \in Slots :
    /\ FirstInsert(s)
    /\ calls[s].req.changes[1].op = "_insert"
    /\ calls[s].req.changes[1].text = "x"
    /\ Len(calls[s].req.changes) = 3

\* the length of a longest common subsequence of a and b
RECURSIVE LCS(_, _)
LCS(a, b) ==
  IF Len(a) = 0 \/ Len(b) = 0 THEN 0
  ELSE IF a[1] = b[1] THEN 1 + LCS(Tail(a), Tail(b))
  ELSE Max(LCS(Tail(a), b), LCS(a, Tail(b)))

\* the texts of the pre-image: the sequence A handed to diff
PreTexts == [i \in 1..Len(preImage) |-> preImage[i].text]

\* C12: the editDistance of diff(A, B) is that of diff(B, A), and both are
\* |A| + |B| - 2 |LCS(A, B)|.
C12_EditDistance ==
  result.step = "diffed"
    => /\ result.d.editDistance = result.dRev.editDistance
       /\ result.d.editDistance
            = Len(PreTexts) + Len(target) - 2 * LCS(PreTexts, target)

C12_Witness ==
  /\ result.step = "diffed"
  /\ Len(PreTexts) > Len(target)
  /\ LCS(PreTexts, target) = 1
  /\ result.d.editDistance = 3

\* the values of the elements of a script whose type is one of kinds
RECURSIVE valuesOf(_, _)
valuesOf(ses, kinds) ==
  IF Len(ses) = 0 THEN <<>>
  ELSE (IF ses[1].type \in kinds THEN <<ses[1].value>> ELSE <<>>)
         \o valuesOf(Tail(ses), kinds)

\* C13: in the script of buildSES the common and deleted elements, in
\* order, are A; the common and added elements, in order, are B; and the
\* added and deleted elements are editDistance many.
C13_ScriptTransforms ==
  result.step = "diffed"
    => /\ valuesOf(result.d.buildSES, {"common", "deleted"}) = PreTexts
       /\ valuesOf(result.d.buildSES, {"common", "added"}) = target
       /\ Len(valuesOf(result.d.buildSES, {"added", "deleted"}))
            = result.d.editDistance

C13_Witness ==
  /\ result.step = "diffed"
  /\ Len(PreTexts) > Len(target)
  /\ Len(valuesOf(result.d.buildSES, {"added"})) >= 1
  /\ Len(valuesOf(result.d.buildSES, {"deleted"})) >= 2
  /\ Len(valuesOf(result.d.buildSES, {"common"})) >= 1

\* an element of type first directly followed by one of type second
Adjacent(ses, first, second) ==
  \E i \in 1..(Len(ses) - 1) :
    ses[i].type = first /\ ses[i + 1].type = second

RunOf(s, i) == Cardinality({j \in 1..(i - 1) : s[j].type = "common"})

\* whether element e of a folded stream is, or holds as one of its sides,
\* the added or deleted element x
Holds(e, x) ==
  \/ e.type = x.type /\ e.value = x.value
  \/ e.type = "replaced" /\ x.type = "added" /\ e.value = x.value
  \/ e.type = "replaced" /\ x.type = "deleted" /\ e.oldValue = x.value

\* how many times run k of a stream holds x
CountIn(s, k, x) ==
  Cardinality({i \in 1..Len(s) : RunOf(s, i) = k /\ Holds(s[i], x)})

IsCommon(e) == e.type = "common"

\* C15: the folder pairs an added with a deleted of the same run of
\* non-common elements only, a replaced has the added element's value as
\* value and the deleted element's as oldValue, every element of the
\* input is in the output once (as itself or as one side of a replaced),
\* and the common elements are the same ones, in the same order, between
\* the same runs.
C15_FoldKeepsRuns ==
  result.step = "folded" =>
    /\ SelectSeq(result.out, IsCommon) = SelectSeq(stream, IsCommon)
    /\ \A k \in 0..Len(stream) :
         \A x \in ChangeElems :
           x.type # "common" =>
             CountIn(result.out, k, x) = CountIn(stream, k, x)
    /\ \A i \in 1..Len(result.out) :
         result.out[i].type \in {"added", "deleted", "common", "replaced"}

\* a deleted then an added of another value, fused, before a common
\* element and an added one that stays as it is
C15_Witness ==
  /\ result.step = "folded"
  /\ Len(stream) = 4
  /\ stream[1] = Deleted("a") /\ stream[2] = Added("b")
  /\ stream[3].type = "common" /\ stream[4].type = "added"
  /\ result.out = <<Replaced("b", "a"), stream[3], stream[4]>>

\* whether a stream has an added and a deleted element next to each other
HasAdjacentPair(s) ==
  \E i \in 1..(Len(s) - 1) :
    {s[i].type, s[i + 1].type} = {"added", "deleted"}

\* C16: folding a stream with no added element next to a deleted one is
\* the identity: the output is the input, element for element, and holds
\* no replaced.
C16_FoldIdentity ==
  (result.step = "folded" /\ ~HasAdjacentPair(stream)) =>
    /\ result.out = stream
    /\ \A i \in 1..Len(result.out) : result.out[i].type # "replaced"

\* a stream with added, common and deleted elements, none fused
C16_Witness ==
  /\ result.step = "folded"
  /\ ~HasAdjacentPair(stream)
  /\ Len(stream) = 4
  /\ stream[1].type = "added" /\ stream[2].type = "added"
  /\ stream[3].type = "common" /\ stream[4].type = "deleted"
  /\ result.out = stream


\* the list the first k ops of the batch produce
AfterOps(k) == applyTo(preImage, SubSeq(ops, 1, k))

\* op k is an _insert with an anchor other than "_end", an _update or a
\* _delete, and the id it names is not in the list the ops before it made
NamesAbsent(k) ==
  /\ IsLineOp(ops[k])
  /\ ~(ops[k].op = "_insert" /\ ops[k].anchor = End)
  /\ \A i \in 1..Len(AfterOps(k - 1).lines) :
       AfterOps(k - 1).heap[AfterOps(k - 1).lines[i]].id # ops[k].anchor

\* the ops that name an absent id, the ops before them having gone through
FailingOps ==
  {k \in 1..Len(ops) :
     NamesAbsent(k) /\ \A j \in 1..(k - 1) : ~NamesAbsent(j)}

\* C17: applyCommit fails, with MissingAnchor naming the id, exactly when
\* some _insert (not at "_end"), _update or _delete names an id absent from
\* the list the ops before it produced; an op whose anchor is in that list
\* goes through, and title, descriptions and deleted ops go through and
\* leave every line as it was.
C17_MissingAnchor ==
  result.step = "applied" =>
    /\ (FailingOps = {}) <=> (result.ap.err = NoError)
    /\ \A k \in FailingOps :
         /\ result.ap.err = MissingAnchor(ops[k].anchor)
         /\ AfterOps(k).err = result.ap.err
         /\ AfterOps(k - 1).err = NoError
    /\ \A k \in 1..Len(ops) :
         (~IsLineOp(ops[k]) /\ AfterOps(k - 1).err = NoError) =>
           /\ AfterOps(k).err = NoError
           /\ Deref(AfterOps(k).heap, AfterOps(k).lines)
                = Deref(AfterOps(k - 1).heap, AfterOps(k - 1).lines)

\* a batch that deletes a line and then updates it: the second op names an
\* id the first one removed
C17_Witness ==
  /\ result.step = "applied"
  /\ Len(preImage) = 2
  /\ ops = <<DeleteOp(LineId(0, 0, 1)), UpdateOp(LineId(0, 0, 1), "x")>>
  /\ result.ap.err = MissingAnchor(LineId(0, 0, 1))


\* the socket hands the room its next message in this step
Handed == connected /\ inbox # <<>> /\ inbox' = Tail(inbox)

\* the user of the commit the handed message is about: the one the
\* notification carries, or the local user for the answer to a push
Committer ==
  IF Head(inbox).type = "commit" THEN Head(inbox).userId ELSE UserId

\* the lines the mirror holds after the step and did not hold before it
InsertedLines ==
  {heap'[lines'[i]] : i \in 1..Len(lines')}
    \ {l \in {heap'[lines'[i]] : i \in 1..Len(lines')} :
          \E j \in 1..Len(lines) : heap[lines[j]].id = l.id}

\* C18: a line that enters the mirror when a push succeeds or a commit
\* notification is applied has created and updated equal to the time in
\* its id, and the userId of the commit: the local user's for a push, the
\* one the notification carries for a remote commit.
C18_InsertedLineFields ==
  [][Handed =>
       \A l \in InsertedLines :
         /\ l.created = getUnixTimeFromId(l.id)
         /\ l.updated = getUnixTimeFromId(l.id)
         /\ l.userId = Committer]_vars


\* C19: the pre-image a patch diffs against is the line list its callback
\* was given: once the callback's result is in, the changes are computed
\* between the texts the callback saw and the texts it returned, whatever
\* notification replaced the mirror while the callback was suspended.
C19_DiffsAgainstInputOfF ==
  \A s \in Slots :
    (calls[s].kind = "patch" /\ calls[s].pc \notin {"idle", "awaitF"}) =>
      calls[s].diffIn = calls[s].fIn


\* the commit request of the call in slot s is outstanding: a step of the
\* call from here is the settling of that request
AwaitsCommit(s) == calls[s].reqState \in {"sent", "handled"}

\* C20: in a patch only a rejected commit request leads to a refetch and
\* a new attempt, or to the failure that ends the attempts: a step in
\* which the call starts a refetch, or fails as exhausted, is one in which
\* its commit request settled, never one in which building the batch
\* raised an error.
C20_OnlyRejectionRetries ==
  [][\A s \in Slots :
       (/\ calls'[s].kind = "patch"
        /\ \/ calls'[s].nFetch > calls[s].nFetch
           \/ /\ calls'[s].pc = "failed" /\ calls[s].pc # "failed"
              /\ calls'[s].err = PushExhausted)
         => AwaitsCommit(s)]_vars


\* C21: once created is true the mirror holds at least one line, and no
\* call made on a created page ends with the TypeError of reading the
\* text of a first line that is not there.
C21_MirrorNeverEmpty ==
  /\ created => Len(lines) >= 1
  /\ \A s \in Slots : calls[s].preCreated => calls[s].err # TypeError


\* C22: deletePage on a page it read as not persistent returns at once,
\* with no socket opened and no commit submitted; on a persistent page
\* every batch it submits is [{deleted: true}], it gives up only after
\* the first submission and every resubmission was rejected (or one was
\* accepted), and its socket is disconnected once it has returned or
\* raised.
C22_DeletePage ==
  \A s \in Slots :
    calls[s].kind = "deletePage" =>
      /\ calls[s].pc \in {"done", "failed"} => ~connected
      /\ (calls[s].pc # "page" /\ ~calls[s].preCreated)
           => /\ calls[s].pc = "done"
              /\ calls[s].nReq = 0
              /\ calls[s].accepted = <<>>
              /\ ~connected
      /\ calls[s].reqState \in {"sent", "handled"}
           => /\ calls[s].req.changes = <<DeletedOp>>
              /\ connected
      /\ (calls[s].pc = "failed" /\ calls[s].accepted = <<>>)
           => /\ calls[s].err = PushExhausted
              /\ calls[s].nRej = DefaultRetry + 1
              /\ calls[s].nReq = DefaultRetry + 1

\* deletePage raised after all its submissions were rejected, and its
\* socket is closed
C22_Witness ==
  \E s \in Slots :
    /\ calls[s].kind = "deletePage"
    /\ calls[s].pc = "failed"
    /\ calls[s].preCreated
    /\ calls[s].nRej = DefaultRetry + 1
    /\ ~connected


\* C23: the id minted for a userId of 6 hex characters or more is 24 hex
\* characters: 8 hex digits of the second, the last 6 characters of the
\* userId, "0000" and the random part; its first 8 characters decode to
\* the second it was minted at.
C23_IdFormat ==
  (result.step = "minted" /\ Len(input.userId) >= 6) =>
    /\ Len(result.id) = 24
    /\ \A i \in 1..Len(result.id) : result.id[i] \in 0..15
    /\ SubSeq(result.id, 1, 8) = zero(toString16(input.now))
    /\ SubSeq(result.id, 9, 14) = sliceLast(input.userId, 6)
    /\ SubSeq(result.id, 15, 18) = <<0, 0, 0, 0>>
    /\ parseInt16(SubSeq(result.id, 19, Len(result.id))) = input.rand
    /\ getUnixTimeFromIdChars(result.id) = input.now

C25_TrialCopy ==
  [][\A s \in Slots :
       (/\ calls'[s].kind \in {"insert", "remove", "update"}
        /\ calls'[s].pc # "done"
        /\ ~(Handed /\ Head(inbox).type = "commit"))
         => /\ Deref(heap', lines') = Deref(heap, lines)
            /\ parentId' = parentId
            /\ created' = created]_vars


\* the folded edit script diffToChanges walks
FoldedScript == toExtendedChanges(diff(PreTexts, target).buildSES)

\* the position in the folded script of the element that emits op k: the
\* k-th element that is not common
RECURSIVE ElementOf(_, _, _)
ElementOf(ext, k, i) ==
  IF ext[i].type # "common"
  THEN IF k = 1 THEN i ELSE ElementOf(ext, k - 1, i + 1)
  ELSE ElementOf(ext, k, i + 1)

\* the cursor as the specification moves it: the number of deleted,
\* replaced and common elements before element i
CursorBySpec(ext, i) ==
  Cardinality({j \in 1..(i - 1) : ext[j].type # "added"})

\* C26: every op diffToChanges emits is anchored at the pre-image line
\* under a cursor that added elements do not advance and deleted,
\* replaced and common elements advance by one line; so the cursor never
\* runs past the pre-image before a deleted, replaced or common element.
C26_AddedKeepsCursor ==
  (result.step = "patched" /\ Len(preImage) >= 1) =>
    /\ result.d.err = NoError
    /\ \A k \in 1..Len(result.d.changes) :
         result.d.changes[k].anchor
           = lineIdAt(preImage,
                      CursorBySpec(FoldedScript,
                                   ElementOf(FoldedScript, k, 1)))

\* the cursor (lineNo) diffToChanges holds when it meets element i
RECURSIVE CursorAt(_, _)
CursorAt(ext, i) ==
  IF i = 1 THEN 0 ELSE nextLineNo(CursorAt(ext, i - 1), ext[i - 1])

\* the elements other than added that the walk meets with the cursor
\* past the last pre-image line
MetPastEnd ==
  {i \in 1..Len(FoldedScript) :
     /\ FoldedScript[i].type # "added"
     /\ CursorAt(FoldedScript, i) >= Len(preImage)}

\* C27: diffToChanges raises BadAnchor exactly when it meets a deleted,
\* replaced or common element with its cursor past the last pre-image
\* line; an added element met there, before any such element, emits an
\* _insert anchored at "_end".
C27_BadAnchor ==
  (result.step = "patched" /\ Len(preImage) >= 1) =>
    /\ result.d.err = BadAnchor <=> MetPastEnd # {}
    /\ result.d.err \in {NoError, BadAnchor}
    /\ \A k \in 1..Len(result.d.changes) :
         LET i == ElementOf(FoldedScript, k, 1)
         IN (/\ FoldedScript[i].type = "added"
             /\ CursorAt(FoldedScript, i) >= Len(preImage))
              => /\ result.d.changes[k].op = "_insert"
                 /\ result.d.changes[k].anchor = End

\* a walk over a pre-image of two lines that emits an _insert and then
\* meets an element other than added past the last line
C27_Witness ==
  /\ result.step = "patched"
  /\ Len(preImage) = 2
  /\ result.d.err = BadAnchor
  /\ Len(result.d.changes) >= 1
  /\ result.d.changes[1].op = "_insert"
  /\ MetPastEnd # {}


\* run k of a stream: its elements between the k-th common element and
\* the next one, in order
RunSeq(s, k) ==
  LET at == {i \in 1..Len(s) : RunOf(s, i) = k /\ s[i].type # "common"}
      lo == CHOOSE i \in at : \A j \in at : i <= j
  IN [j \in 1..Cardinality(at) |-> s[lo + j - 1]]

\* the number of elements at the head of a run that are of its first kind
RECURSIVE LeadLen(_)
LeadLen(run) ==
  IF Len(run) <= 1 THEN Len(run)
  ELSE IF run[2].type # run[1].type THEN 1
  ELSE 1 + LeadLen(Tail(run))

\* a run of m elements of one kind followed by elements of the other kind
\* only
TwoBlocks(run) ==
  \A j \in (LeadLen(run) + 1)..Len(run) : run[j].type # run[1].type

\* the replaced element for an added and a deleted one, in either order
PairOf(x, y) ==
  IF x.type = "added" THEN Replaced(x.value, y.value)
  ELSE Replaced(y.value, x.value)

\* what the flush rule yields for a run of m elements of one kind and n of
\* the other
FlushRule(run, m, n) ==
  [j \in 1..Max(m, n) |->
     IF m > n
     THEN IF j <= m - n THEN run[j] ELSE PairOf(run[j], run[n + j])
     ELSE IF j <= m THEN PairOf(run[j], run[m + j]) ELSE run[m + j]]

\* C28: for every run of m elements of one kind followed by n of the
\* other, the folder yields the first max(m - n, 0) of the first kind as
\* they are, then min(m, n) replaced elements pairing the rest of the
\* first kind with the head of the second, position by position, then
\* the last max(n - m, 0) of the second kind; nothing of a run is left in
\* a buffer for the next one.
C28_FlushRule ==
  result.step = "folded" =>
    \A k \in 0..Len(stream) :
      TwoBlocks(RunSeq(stream, k)) =>
        RunSeq(result.out, k)
          = FlushRule(RunSeq(stream, k), LeadLen(RunSeq(stream, k)),
                      Len(RunSeq(stream, k)) - LeadLen(RunSeq(stream, k)))

\* three deleted then one added: two deleted stay, the third is paired
C28_Witness ==
  /\ result.step = "folded"
  /\ stream = <<Deleted("a"), Deleted("b"), Deleted("x"), Added("a")>>
  /\ result.out = <<Deleted("a"), Deleted("b"), Replaced("a", "x")>>


\* the commit requests and refetches of every call are within the bounds
\* of its kind: 1 + retry and retry for insert, remove, update and
\* deletePage, 3 and 2 for the patch of a room and the one-shot patch
WithinBounds ==
  \A s \in Slots :
    /\ calls[s].kind \in {"insert", "remove", "update", "deletePage"}
         => /\ calls[s].nReq <= 1 + DefaultRetry
            /\ calls[s].nFetch <= DefaultRetry
    /\ calls[s].kind \in {"patch", "patchPage"}
         => /\ calls[s].nReq <= PatchTries
            /\ calls[s].nFetch <= PatchTries - 1

\* the answer {commitId} to a request of the call in slot s reaches the
\* call in this step
Acknowledged(s) ==
  /\ Handed
  /\ Head(inbox).type = "res" /\ Head(inbox).slot = s /\ Head(inbox).ok

Succeeds(s) == Acknowledged(s) /\ Resolves(s)

\* C30: a remote commit that the consumer applied to the mirror while a
\* push was waiting for the server's answer is not lost: when the push
\* finishes successfully, the mirror holds the remote commit's changes
\* together with the local ones, that is, the lines of the server's page
\* at the accepted commit.
C30_RemoteKept ==
  [][\A s \in Slots :
       (Succeeds(s) /\ calls[s].seen /\ consumerAlive)
         => IdText(Deref(heap', lines'))
              = IdText(srvPages[Head(inbox).commitId + 1])]_vars


\* the _insert ops of a batch, in the order of the batch
InsertsOf(changes) == SelectSeq(changes, LAMBDA c : c.op = "_insert")

\* the first position of the line with the given id in a list of lines,
\* one past the end for "_end" and 0 when no line has the id
PlaceOf(recs, anchor) ==
  IF anchor = End THEN Len(recs) + 1
  ELSE IF \E i \in 1..Len(recs) : recs[i].id = anchor
  THEN CHOOSE i \in 1..Len(recs) :
         /\ recs[i].id = anchor
         /\ \A j \in 1..(i - 1) : recs[j].id # anchor
  ELSE 0

\* the batch of an insert names one anchor, carries the lines of one text
\* in order, and its ids are fresh; when the anchor is "_end" or a line of
\* the pre-image, the post-image is the pre-image with these lines before it
InsertedInPlace(call) ==
  LET ins == InsertsOf(call.changes)
      p == PlaceOf(call.pre, ins[1].anchor)
  IN /\ [k \in 1..Len(ins) |-> ins[k].text] \in InsertTexts
     /\ \A k \in 1..Len(ins) : ins[k].anchor = ins[1].anchor
     /\ \A k, l \in 1..Len(ins) : ins[k].id = ins[l].id => k = l
     /\ \A k \in 1..Len(ins), i \in 1..Len(call.pre) :
          ins[k].id # call.pre[i].id
     /\ p > 0 =>
          IdText(call.post)
            = IdText(SubSeq(call.pre, 1, p - 1))
                \o [k \in 1..Len(ins) |-> <<ins[k].id, ins[k].text>>]
                \o IdText(SubSeq(call.pre, p, Len(call.pre)))

\* C31: insert(text, beforeId) with a text of k lines submits k _insert
\* ops in text order, each with a fresh id and all anchored at beforeId;
\* applying them puts the k lines, in order, right before the anchor line
\* (at the end for "_end") and leaves the other lines as they were.
C31_InsertInPlace ==
  \A s \in Slots :
    calls[s].kind = "insert" => InsertedInPlace(calls[s])

\* an insert of two lines before a line of a page of two lines, accepted
C31_Witness ==
  \E s \in Slots :
    /\ calls[s].kind = "insert" /\ calls[s].pc = "done"
    /\ Len(InsertsOf(calls[s].changes)) = 2
    /\ Len(calls[s].pre) = 2
    /\ PlaceOf(calls[s].pre, InsertsOf(calls[s].changes)[1].anchor) = 2


\* the channels listenStream is asked for: those named, or the two of the
\* project stream when none is named
Requested ==
  IF input.events = <<>> THEN {EventChannel, CommitChannel}
  ELSE {input.events[i] : i \in 1..Len(input.events)}

\* C32: once listenStream has joined the project stream, it yields only
\* events of the requested channels (of both projectUpdatesStream channels
\* when none is named); its socket is disconnected whenever the sequence
\* ends, by the consumer's return, by an error or by the end of the event
\* stream; and no event is yielded after the disconnect.
C32_ListenStream ==
  /\ [](\A i \in 1..Len(result.yielded) :
          result.yielded[i].type \in Requested)
  /\ [](result.step = "ended" => ~connected)
  /\ [][~connected => result'.yielded = result.yielded]_vars

\* the sequence ended by an error after it yielded an event of each of the
\* two default channels, with an event still waiting
C32_Witness ==
  /\ input.events = <<>>
  /\ result.step = "ended" /\ result.how = "throw"
  /\ \E i, j \in 1..Len(result.yielded) :
       /\ result.yielded[i].type = EventChannel
       /\ result.yielded[j].type = CommitChannel
  /\ inbox # <<>>


\* C33: the room's parentId never moves back to an older commit: a
\* notification delivered after a refetch or an answer that already
\* reflects a newer head does not reset it.
C33_ParentIdMonotone == [][parentId' >= parentId]_vars


\* C34: diffToChanges never produces a wrong batch silently: for a
\* pre-image of at least one line with distinct ids and any target, it
\* raises an error, or the ops it emits apply to the pre-image without
\* error and give the target texts.
C34_NoSilentWrongBatch ==
  (result.step = "patched" /\ Len(preImage) >= 1
     /\ result.d.err = NoError)
    => /\ result.ap.err = NoError
       /\ TextsOf(result.ap.heap, result.ap.lines) = target

\* a walk that ended without error on a pre-image of two lines or more and
\* emitted an _insert next to an _update or a _delete
C34_Witness ==
  /\ result.step = "patched" /\ Len(preImage) >= 2
  /\ result.d.err = NoError
  /\ HasOp(result.d.changes, "_insert")
  /\ HasOp(result.d.changes, "_update") \/ HasOp(result.d.changes, "_delete")


\* the methods of the room
RoomKinds == {"insert", "remove", "update", "patch"}

\* the promise of the call in slot s resolves in this step without an
\* answer of the server: its batch was empty
ResolvesUnsent(s) ==
  /\ calls'[s].kind \in RoomKinds
  /\ Resolves(s)
  /\ ~Acknowledged(s)

\* parentId and the mirror as the push found them: those of the page just
\* fetched when the step is the return of a refetch
ParentFound(s) ==
  IF calls[s].reqState = "fetched" THEN calls[s].fetched.commitId
  ELSE parentId

MirrorFound(s) ==
  IF calls[s].reqState = "fetched" THEN IdText(calls[s].fetched.lines)
  ELSE Mirror

\* C35: a push whose batch is empty sends no commit request and counts as
\* successful, and it leaves parentId and the ids and texts of the
\* mirror's lines as they were.
C35_EmptyBatch ==
  /\ [](\A s \in Slots :
          (calls[s].kind \in RoomKinds /\ calls[s].changes = <<>>
             /\ calls[s].post # <<>>)
            => calls[s].pc = "done")
  /\ [][\A s \in Slots :
          /\ calls'[s].nReq > calls[s].nReq => calls'[s].req.changes # <<>>
          /\ ResolvesUnsent(s)
               => /\ calls'[s].nReq = calls[s].nReq
                  /\ parentId' = ParentFound(s)
                  /\ IdText(Deref(heap', lines')) = MirrorFound(s)]_vars

\* a patch whose f returned the texts it was given resolved at once on a
\* created page of two lines, with no request sent
C35_Witness ==
  \E s \in Slots :
    /\ calls[s].kind = "patch" /\ calls[s].f = "identity"
    /\ calls[s].pc = "done" /\ calls[s].nReq = 0
    /\ calls[s].preCreated
    /\ Len(lines) = 2


\* the first ensureEditablePage of the one-shot patch in slot s returns in
\* this step, with a page that is not persistent
FindsNoPage(s) ==
  /\ calls[s].kind = "patchPage" /\ calls[s].pc = "page"
  /\ calls[s].reqState = "fetched"
  /\ ~calls[s].fetched.persistent
  /\ calls'[s].reqState # "fetched"

\* C36: the one-shot patch on a page that is not persistent returns
\* without calling f, without opening a socket and without a commit
\* request, so that the page stays as it is; the one-shot patch therefore
\* never sends a request built for a page that is not persistent (the one
\* that would carry the title op of such a page).
C36_NonPersistentUntouched ==
  [][\A s \in Slots :
       /\ FindsNoPage(s)
            => /\ calls'[s].pc = "done"
               /\ calls'[s].fIn = <<>> /\ calls'[s].newLines = <<>>
               /\ calls'[s].nReq = 0
               /\ ~connected'
               /\ UNCHANGED <<srvHead, srvPages, srvPersistent>>
       /\ (calls'[s].kind = "patchPage" /\ calls'[s].nReq > calls[s].nReq)
            => calls'[s].preCreated]_vars

=============================================================================
